---- MODULE Spec2Model ----
(***************************************************************************)
(* The ontology graph store of astra_agi (src/knowledge): the id allocator, *)
(* the concept, entity and relationship maps, the three derived indices,   *)
(* whole-graph persistence, breadth-first traversal, shortest path and the *)
(* query evaluator.                                                        *)
(*                                                                         *)
(* A HashMap is a function whose DOMAIN is its key set, a HashSet is a set, *)
(* a Vec is a sequence and an Option is a sequence of length at most one.  *)
(***************************************************************************)
EXTENDS Integers, Sequences, FiniteSets, TLC

\* ------------------------------------------------------------------ bounds
\* add_* calls made on one Ontology value
MaxCalls == 3
\* ids 1..NumNodes are the entities of the graphs the traversals run on
NumNodes == 3
\* relationships of the graphs the traversals run on
MaxEdges == 3
\* largest max_depth handed to bfs
MaxDepth == 2
\* entities of the graphs the queries run on
MaxEntities == 2
\* longest exprs list of a Logical query
MaxExprs == 2

\* ------------------------------------------------------------ input values
\* ids a caller passes as relationship endpoints (none need be an entity)
RefIds == {1, 2}

\* ids a caller passes as concept_id (none need be a concept)
ConceptRefs == {1}

ConceptNames == {"Person", "Animal"}

AttrNames == {"age", "name"}

Integer(n) == [variant |-> "Integer", data |-> n]

String(n) == [variant |-> "String", data |-> n]

Boolean(n) == [variant |-> "Boolean", data |-> n]

Reference(n) == [variant |-> "Reference", data |-> n]

\* the values an entity may hold under each attribute name
AttrValuesOf(name) ==
    IF name = "age" THEN {Integer(25), Integer(30)} ELSE {String(1)}

FriendOf == [variant |-> "FriendOf", name |-> ""]

WorksAt == [variant |-> "WorksAt", name |-> ""]

Custom(s) == [variant |-> "Custom", name |-> s]

RelTypes == {FriendOf, Custom("knows")}

\* ------------------------------------------------------------ map helpers
EmptyMap == <<>>

\* HashMap::insert
Put(m, k, v) == [x \in DOMAIN m \cup {k} |-> IF x = k THEN v ELSE m[x]]

\* HashMap::entry(k).or_default(), read side
GetOr(m, k, d) == IF k \in DOMAIN m THEN m[k] ELSE d

\* all partial maps from a subset of the names to their values
AttributeMaps ==
    UNION {[ns -> UNION {AttrValuesOf(n) : n \in ns}] : ns \in SUBSET AttrNames}

EntityAttributeInputs ==
    {m \in AttributeMaps : \A n \in DOMAIN m : m[n] \in AttrValuesOf(n)}

ConceptAttributeInputs == {[age |-> "Integer"]}

ParentInputs == {{}, {1}}

\* ---------------------------------------------------------------- state
VARIABLES
    ont,        \* the Ontology value: a record of the fields of struct Ontology
    storage,    \* the backend's value under key "ontology_state": <<>> or <<blob>>
    returned,   \* history: the ids returned by the add_* calls, in call order
    outcome,    \* the Result of load_from_storage when it was the last call, or "none"
    saved       \* history: <<>> or <<the Ontology value of the last save that returned Ok>>

ontVars == <<ont, storage, returned, outcome, saved>>

\* the locals of a running bfs or shortest_path call
VARIABLES
    pc,            \* "idle", or the position in the running call
    start_id,      \* argument of bfs and shortest_path
    max_depth,     \* argument of bfs
    end_id,        \* argument of shortest_path
    visited,       \* HashSet<Id>
    queue,         \* VecDeque: of (id, depth) in bfs, of id in shortest_path
    result,        \* bfs: the Vec<Id> built and returned
    predecessors,  \* shortest_path: HashMap<Id, Id>
    current,       \* the element popped by "while let Some(..) = queue.pop_front()"
    pending,       \* the neighbors the "for &neighbor in neighbors" loop has yet to yield
    path           \* shortest_path: the Option<Vec<Id>> returned

travVars == <<pc, start_id, max_depth, end_id, visited, queue, result,
              predecessors, current, pending, path>>

\* a query call
VARIABLES
    scan,       \* the order in which self.entities.values() yields the entities
    expr,       \* argument of query
    matches     \* the Vec<&Entity> query returns, as the ids of the entities

queryVars == <<scan, expr, matches>>

\* the runtime, memory and planning components, each a record of the fields of
\* its struct once constructed and <<>> before
VARIABLES
    reasoner,          \* a running Reasoner::is_concept_or_subconcept call
    intent_manager,    \* struct IntentManager
    narrative_memory,  \* struct NarrativeMemory
    executor,          \* struct PlanExecutor
    scheduler,         \* struct Scheduler
    planner,           \* a running GoapPlanner::plan call
    now,               \* the clock read by Instant::now()
    reply,             \* the value the last call returned
    history            \* history: what the calls made so far did, in order

runtimeVars == <<reasoner, intent_manager, narrative_memory, executor, scheduler,
                 planner, now, reply, history>>

\* the graph store and the locals of its calls, pc apart
graphVars == <<ontVars, start_id, max_depth, end_id, visited, queue, result,
               predecessors, current, pending, path, queryVars>>

vars == <<ont, storage, returned, outcome, saved, travVars, queryVars, runtimeVars>>

\* Ontology::new
Ontology_new ==
    [next_id |-> 1,
     concepts |-> EmptyMap,
     concepts_by_name |-> EmptyMap,
     entities |-> EmptyMap,
     relationships |-> EmptyMap,
     attribute_index |-> EmptyMap,
     relationship_index |-> EmptyMap,
     adjacency_list |-> EmptyMap]

\* add_concept without "self.next_id += 1"
add_concept_no_advance(o, name, parents, attributes) ==
    LET id == o.next_id
        concept == [id |-> id, name |-> name, parent_ids |-> parents,
                    attributes |-> attributes]
    IN [o EXCEPT !.concepts_by_name = Put(@, name, id),
                 !.concepts = Put(@, id, concept)]

\* add_concept with concepts_by_name.entry(name).or_insert(id): the first
\* concept of a name keeps the name
add_concept_first_wins(o, name, parents, attributes) ==
    LET id == o.next_id
        concept == [id |-> id, name |-> name, parent_ids |-> parents,
                    attributes |-> attributes]
    IN [o EXCEPT !.next_id = id + 1,
                 !.concepts_by_name =
                     IF name \in DOMAIN @ THEN @ ELSE Put(@, name, id),
                 !.concepts = Put(@, id, concept)]

\* Ontology::add_concept; the id it returns is o.next_id
add_concept(o, name, parents, attributes) ==
    LET id == o.next_id
        concept == [id |-> id, name |-> name, parent_ids |-> parents,
                    attributes |-> attributes]
    IN [o EXCEPT !.next_id = id + 1,
                 !.concepts_by_name = Put(@, name, id),
                 !.concepts = Put(@, id, concept)]

\* the index loop with the bucket replaced instead of extended
RECURSIVE IndexAttributes_overwrite(_, _, _)
IndexAttributes_overwrite(index, attribute_values, id) ==
    IF DOMAIN attribute_values = {} THEN index
    ELSE LET attr_name == CHOOSE n \in DOMAIN attribute_values : TRUE
             attr_value == attribute_values[attr_name]
             val_map == GetOr(index, attr_name, EmptyMap)
             rest == [n \in DOMAIN attribute_values \ {attr_name} |->
                        attribute_values[n]]
         IN IndexAttributes_overwrite(
                Put(index, attr_name, Put(val_map, attr_value, {id})), rest, id)

\* the index loop run after the allocator advanced: it inserts next_id, not id
RECURSIVE IndexAttributes_next_id(_, _, _)
IndexAttributes_next_id(index, attribute_values, id) ==
    IF DOMAIN attribute_values = {} THEN index
    ELSE LET attr_name == CHOOSE n \in DOMAIN attribute_values : TRUE
             attr_value == attribute_values[attr_name]
             val_map == GetOr(index, attr_name, EmptyMap)
             ids == GetOr(val_map, attr_value, {})
             rest == [n \in DOMAIN attribute_values \ {attr_name} |->
                        attribute_values[n]]
         IN IndexAttributes_next_id(
                Put(index, attr_name, Put(val_map, attr_value, ids \cup {id + 1})),
                rest, id)

\* the loop of add_entity over (attr_name, attr_value): one
\* entry(attr_name).or_default().entry(attr_value).or_default().insert(id) each
RECURSIVE IndexAttributes(_, _, _)
IndexAttributes(index, attribute_values, id) ==
    IF DOMAIN attribute_values = {} THEN index
    ELSE LET attr_name == CHOOSE n \in DOMAIN attribute_values : TRUE
             attr_value == attribute_values[attr_name]
             val_map == GetOr(index, attr_name, EmptyMap)
             ids == GetOr(val_map, attr_value, {})
             rest == [n \in DOMAIN attribute_values \ {attr_name} |->
                        attribute_values[n]]
         IN IndexAttributes(
                Put(index, attr_name, Put(val_map, attr_value, ids \cup {id})),
                rest, id)

\* Ontology::add_entity; the id it returns is o.next_id
add_entity(o, concept_id, attribute_values) ==
    LET id == o.next_id
        entity == [id |-> id, concept_id |-> concept_id,
                   attribute_values |-> attribute_values]
    IN [o EXCEPT !.next_id = id + 1,
                 !.entities = Put(@, id, entity),
                 !.attribute_index = IndexAttributes(@, attribute_values, id)]

\* add_relationship with one relationship_index bucket per from_entity,
\* whatever the type
add_relationship_one_bucket(o, from_entity, to_entity, rel_type) ==
    LET id == o.next_id
        relationship == [id |-> id, from_entity |-> from_entity,
                         to_entity |-> to_entity, rel_type |-> rel_type]
        rel_map == GetOr(o.relationship_index, from_entity, EmptyMap)
        rel_ids == UNION {rel_map[t] : t \in DOMAIN rel_map}
        neighbors == GetOr(o.adjacency_list, from_entity, {})
    IN [o EXCEPT !.next_id = id + 1,
                 !.relationships = Put(@, id, relationship),
                 !.relationship_index =
                     Put(@, from_entity, Put(rel_map, rel_type, rel_ids \cup {id})),
                 !.adjacency_list =
                     Put(@, from_entity, neighbors \cup {to_entity})]

\* add_relationship with adjacency_list.insert(from, {to}) in place of
\* entry(from).or_default().insert(to)
add_relationship_adj_overwrite(o, from_entity, to_entity, rel_type) ==
    LET id == o.next_id
        relationship == [id |-> id, from_entity |-> from_entity,
                         to_entity |-> to_entity, rel_type |-> rel_type]
        rel_map == GetOr(o.relationship_index, from_entity, EmptyMap)
        rel_ids == GetOr(rel_map, rel_type, {})
    IN [o EXCEPT !.next_id = id + 1,
                 !.relationships = Put(@, id, relationship),
                 !.relationship_index =
                     Put(@, from_entity, Put(rel_map, rel_type, rel_ids \cup {id})),
                 !.adjacency_list = Put(@, from_entity, {to_entity})]

\* add_relationship storing an empty entity for a source that is no entity
add_relationship_vivifying(o, from_entity, to_entity, rel_type) ==
    LET id == o.next_id
        relationship == [id |-> id, from_entity |-> from_entity,
                         to_entity |-> to_entity, rel_type |-> rel_type]
        rel_map == GetOr(o.relationship_index, from_entity, EmptyMap)
        rel_ids == GetOr(rel_map, rel_type, {})
        neighbors == GetOr(o.adjacency_list, from_entity, {})
    IN [o EXCEPT !.next_id = id + 1,
                 !.entities =
                     IF from_entity \in DOMAIN @ THEN @
                     ELSE Put(@, from_entity,
                              [id |-> from_entity, concept_id |-> 0,
                               attribute_values |-> EmptyMap]),
                 !.relationships = Put(@, id, relationship),
                 !.relationship_index =
                     Put(@, from_entity, Put(rel_map, rel_type, rel_ids \cup {id})),
                 !.adjacency_list =
                     Put(@, from_entity, neighbors \cup {to_entity})]

\* add_relationship refusing an endpoint that is no entity: nothing is stored
add_relationship_checked(o, from_entity, to_entity, rel_type) ==
    IF from_entity \in DOMAIN o.entities /\ to_entity \in DOMAIN o.entities
    THEN LET id == o.next_id
             relationship == [id |-> id, from_entity |-> from_entity,
                              to_entity |-> to_entity, rel_type |-> rel_type]
             rel_map == GetOr(o.relationship_index, from_entity, EmptyMap)
             rel_ids == GetOr(rel_map, rel_type, {})
             neighbors == GetOr(o.adjacency_list, from_entity, {})
         IN [o EXCEPT !.next_id = id + 1,
                      !.relationships = Put(@, id, relationship),
                      !.relationship_index =
                          Put(@, from_entity, Put(rel_map, rel_type, rel_ids \cup {id})),
                      !.adjacency_list =
                          Put(@, from_entity, neighbors \cup {to_entity})]
    ELSE o

\* Ontology::add_relationship; the id it returns is o.next_id
add_relationship(o, from_entity, to_entity, rel_type) ==
    LET id == o.next_id
        relationship == [id |-> id, from_entity |-> from_entity,
                         to_entity |-> to_entity, rel_type |-> rel_type]
        rel_map == GetOr(o.relationship_index, from_entity, EmptyMap)
        rel_ids == GetOr(rel_map, rel_type, {})
        neighbors == GetOr(o.adjacency_list, from_entity, {})
    IN [o EXCEPT !.next_id = id + 1,
                 !.relationships = Put(@, id, relationship),
                 !.relationship_index =
                     Put(@, from_entity, Put(rel_map, rel_type, rel_ids \cup {id})),
                 !.adjacency_list =
                     Put(@, from_entity, neighbors \cup {to_entity})]

\* Vec<&T> results are compared as sets of the ids of the records returned
\* Ontology::find_entities_by_attribute_indexed
find_entities_by_attribute_indexed(o, attr_name, attr_value) ==
    IF attr_name \in DOMAIN o.attribute_index
    THEN LET val_map == o.attribute_index[attr_name]
         IN IF attr_value \in DOMAIN val_map
            THEN {id \in val_map[attr_value] : id \in DOMAIN o.entities}
            ELSE {}
    ELSE {}

NoFilter == <<>>

Some(x) == <<x>>

\* Ontology::get_relationships_indexed; rel_type_filter is NoFilter or Some(t)
get_relationships_indexed(o, entity_id, rel_type_filter) ==
    IF entity_id \in DOMAIN o.relationship_index
    THEN LET rel_map == o.relationship_index[entity_id]
         IN IF rel_type_filter # NoFilter
            THEN LET rel_type == rel_type_filter[1]
                 IN IF rel_type \in DOMAIN rel_map
                    THEN {id \in rel_map[rel_type] : id \in DOMAIN o.relationships}
                    ELSE {}
            ELSE UNION {{id \in rel_map[t] : id \in DOMAIN o.relationships} :
                          t \in DOMAIN rel_map}
    ELSE {}

\* get_neighbors without the filter_map through the entity map
get_neighbors_unfiltered(o, entity_id) ==
    IF entity_id \in DOMAIN o.adjacency_list
    THEN o.adjacency_list[entity_id]
    ELSE {}

\* Ontology::get_neighbors
get_neighbors(o, entity_id) ==
    IF entity_id \in DOMAIN o.adjacency_list
    THEN {id \in o.adjacency_list[entity_id] : id \in DOMAIN o.entities}
    ELSE {}

\* ------------------------------------------------------------ persistence
\* a JSON object: the set of its (key, value) members
MapToObject(m) == {<<k, m[k]>> : k \in DOMAIN m}

ObjectToMap(obj) ==
    [k \in {p[1] : p \in obj} |-> (CHOOSE p \in obj : p[1] = k)[2]]

\* serde_json::to_string_pretty(self): every map field becomes a JSON object,
\* the nested index maps objects of objects
to_string_pretty(o) ==
    [next_id |-> o.next_id,
     concepts |-> MapToObject(o.concepts),
     concepts_by_name |-> MapToObject(o.concepts_by_name),
     entities |-> MapToObject(o.entities),
     relationships |-> MapToObject(o.relationships),
     attribute_index |->
         {<<n, MapToObject(o.attribute_index[n])>> : n \in DOMAIN o.attribute_index},
     relationship_index |->
         {<<f, MapToObject(o.relationship_index[f])>> :
             f \in DOMAIN o.relationship_index},
     adjacency_list |-> MapToObject(o.adjacency_list)]

\* serde_json::from_slice(&data)
from_slice(data) ==
    [next_id |-> data.next_id,
     concepts |-> ObjectToMap(data.concepts),
     concepts_by_name |-> ObjectToMap(data.concepts_by_name),
     entities |-> ObjectToMap(data.entities),
     relationships |-> ObjectToMap(data.relationships),
     attribute_index |->
         ObjectToMap({<<p[1], ObjectToMap(p[2])>> : p \in data.attribute_index}),
     relationship_index |->
         ObjectToMap({<<p[1], ObjectToMap(p[2])>> : p \in data.relationship_index}),
     adjacency_list |-> ObjectToMap(data.adjacency_list)]

\* serde_json writes a map key from a string, an integer or a unit variant and
\* refuses any other key ("key must be a string"): the keys of the inner maps
\* of attribute_index are AttributeValue, all of whose variants carry data, and
\* those of relationship_index are RelationshipType, where Custom carries data
key_must_be_a_string(o) ==
    \/ \E n \in DOMAIN o.attribute_index : DOMAIN o.attribute_index[n] # {}
    \/ \E f \in DOMAIN o.relationship_index :
          \E t \in DOMAIN o.relationship_index[f] : t.variant = "Custom"

\* what a call of save_to_storage or load_from_storage returned
Ok == "Ok"

Err == "Err"

NoOutcome == "none"

\* Ontology::save_to_storage on the backend value st: the first ? returns the
\* serializer's error, the second ? the backend's (fault); nothing is written then
save_to_storage(o, st, fault) ==
    IF key_must_be_a_string(o) \/ fault
    THEN [storage |-> st, result |-> Err]
    ELSE [storage |-> Some(to_string_pretty(o)), result |-> Ok]

\* load_from_storage leaving the graph empty when the backend holds nothing
load_from_storage_reset(o, st, fault) ==
    IF fault THEN [ont |-> o, result |-> Err]
    ELSE IF st = <<>> THEN [ont |-> Ontology_new, result |-> Ok]
    ELSE [ont |-> from_slice(st[1]), result |-> Ok]

\* load_from_storage adding the snapshot's entities to the ones in memory
load_from_storage_merge(o, st, fault) ==
    IF fault THEN [ont |-> o, result |-> Err]
    ELSE IF st = <<>> THEN [ont |-> o, result |-> Ok]
    ELSE LET loaded == from_slice(st[1])
         IN [ont |-> [loaded EXCEPT !.entities =
                         [id \in DOMAIN o.entities \cup DOMAIN loaded.entities |->
                             IF id \in DOMAIN loaded.entities
                             THEN loaded.entities[id] ELSE o.entities[id]]],
             result |-> Ok]

\* Ontology::load_from_storage on the backend value st: *self = loaded only
\* when the backend holds a blob and neither the load nor the deserialization
\* fails (fault); with no blob the call returns Ok(()) and assigns nothing
load_from_storage(o, st, fault) ==
    IF fault THEN [ont |-> o, result |-> Err]
    ELSE IF st = <<>> THEN [ont |-> o, result |-> Ok]
    ELSE [ont |-> from_slice(st[1]), result |-> Ok]

\* Ontology::get_concept
get_concept(o, id) == IF id \in DOMAIN o.concepts THEN Some(o.concepts[id]) ELSE <<>>

\* Ontology::get_entity
get_entity(o, id) == IF id \in DOMAIN o.entities THEN Some(o.entities[id]) ELSE <<>>

\* ---------------------------------------------------------------- actions
\* no component constructed, the clock at its origin
NoRuntime ==
    /\ reasoner = <<>>
    /\ intent_manager = <<>>
    /\ narrative_memory = <<>>
    /\ executor = <<>>
    /\ scheduler = <<>>
    /\ planner = <<>>
    /\ now = 0
    /\ reply = <<>>
    /\ history = <<>>

NoCall ==
    /\ pc = "idle"
    /\ start_id = 0
    /\ max_depth = 0
    /\ end_id = 0
    /\ visited = {}
    /\ queue = <<>>
    /\ result = <<>>
    /\ predecessors = EmptyMap
    /\ current = <<>>
    /\ pending = {}
    /\ path = <<>>
    /\ scan = <<>>
    /\ expr = <<>>
    /\ matches = <<>>

Init ==
    /\ ont = Ontology_new
    /\ storage = <<>>
    /\ outcome = NoOutcome
    /\ saved = <<>>
    /\ NoRuntime
    /\ returned = <<>>
    /\ NoCall

AddConcept ==
    /\ Len(returned) < MaxCalls
    /\ \E name \in ConceptNames, parents \in ParentInputs,
          attributes \in ConceptAttributeInputs :
          ont' = add_concept(ont, name, parents, attributes)
    /\ returned' = Append(returned, ont.next_id)
    /\ outcome' = NoOutcome
    /\ UNCHANGED <<storage, saved, travVars, queryVars>>
    /\ UNCHANGED runtimeVars

AddEntity ==
    /\ Len(returned) < MaxCalls
    /\ \E concept_id \in ConceptRefs, attribute_values \in EntityAttributeInputs :
          ont' = add_entity(ont, concept_id, attribute_values)
    /\ returned' = Append(returned, ont.next_id)
    /\ outcome' = NoOutcome
    /\ UNCHANGED <<storage, saved, travVars, queryVars>>
    /\ UNCHANGED runtimeVars

AddRelationship ==
    /\ Len(returned) < MaxCalls
    /\ \E from_entity \in RefIds, to_entity \in RefIds, rel_type \in RelTypes :
          ont' = add_relationship(ont, from_entity, to_entity, rel_type)
    /\ returned' = Append(returned, ont.next_id)
    /\ outcome' = NoOutcome
    /\ UNCHANGED <<storage, saved, travVars, queryVars>>
    /\ UNCHANGED runtimeVars

\* a call of save_to_storage that also advances the id allocator
SaveToStorage_advancing ==
    /\ \E fault \in BOOLEAN :
          LET call == save_to_storage(ont, storage, fault)
          IN /\ storage' = call.storage
             /\ outcome' = NoOutcome
             /\ saved' = IF call.result = Ok THEN Some(ont) ELSE saved
    /\ ont' = [ont EXCEPT !.next_id = @ + 1]
    /\ UNCHANGED <<returned, travVars, queryVars>>
    /\ UNCHANGED runtimeVars

\* a call of save_to_storage (&self)
SaveToStorage ==
    /\ \E fault \in BOOLEAN :
          LET call == save_to_storage(ont, storage, fault)
          IN /\ storage' = call.storage
             /\ outcome' = NoOutcome
             /\ saved' = IF call.result = Ok THEN Some(ont) ELSE saved
    /\ UNCHANGED <<ont, returned, travVars, queryVars>>
    /\ UNCHANGED runtimeVars

\* a call of load_from_storage (&mut self)
LoadFromStorage ==
    /\ \E fault \in BOOLEAN :
          LET call == load_from_storage(ont, storage, fault)
          IN /\ ont' = call.ont
             /\ outcome' = call.result
    /\ UNCHANGED <<storage, returned, saved, travVars, queryVars>>
    /\ UNCHANGED runtimeVars

Next ==
    \/ AddConcept
    \/ AddEntity
    \/ AddRelationship
    \/ SaveToStorage
    \/ LoadFromStorage

Spec == Init /\ [][Next]_vars

\* ------------------------------------------------------------- traversal
\* the graphs bfs and shortest_path run on: entities 1 .. NumNodes - 1, then
\* one FriendOf relationship per edge; endpoint NumNodes is no entity
Nodes == 1 .. NumNodes

EdgeSets == {E \in SUBSET (Nodes \X Nodes) : Cardinality(E) <= MaxEdges}

RECURSIVE AddEntities(_, _)
AddEntities(o, n) ==
    IF n = 0 THEN o ELSE add_entity(AddEntities(o, n - 1), 1, EmptyMap)

RECURSIVE AddEdges(_, _)
AddEdges(o, E) ==
    IF E = {} THEN o
    ELSE LET e == CHOOSE x \in E : TRUE
         IN AddEdges(add_relationship(o, e[1], e[2], FriendOf), E \ {e})

GraphOf(E) == AddEdges(AddEntities(Ontology_new, NumNodes - 1), E)

GraphInit ==
    /\ \E E \in EdgeSets : ont = GraphOf(E)
    /\ storage = <<>>
    /\ outcome = NoOutcome
    /\ saved = <<>>
    /\ NoRuntime
    /\ returned = [k \in 1 .. ont.next_id - 1 |-> k]
    /\ scan = <<>>
    /\ expr = <<>>
    /\ matches = <<>>

\* bfs with "depth > max_depth" for the cut-off
bfs_expand_off_by_one(o, cur, depth, max) ==
    IF depth > max THEN {}
    ELSE IF cur \in DOMAIN o.adjacency_list THEN o.adjacency_list[cur] ELSE {}

\* bfs: the neighbors the body of the while loop iterates over after it has
\* pushed cur: none at the depth limit ("continue"), none without an entry
bfs_expand(o, cur, depth, max) ==
    IF depth >= max THEN {}
    ELSE IF cur \in DOMAIN o.adjacency_list THEN o.adjacency_list[cur] ELSE {}

BfsInit ==
    /\ GraphInit
    /\ \E s \in Nodes, d \in 0 .. MaxDepth :
          /\ start_id = s
          /\ max_depth = d
          /\ queue = << <<s, 0>> >>
          /\ visited = {s}
    /\ result = <<>>
    /\ pc = "bfs_while"
    /\ end_id = 0
    /\ predecessors = EmptyMap
    /\ current = <<>>
    /\ pending = {}
    /\ path = <<>>

\* while let Some((current, depth)) = queue.pop_front() { result.push(current); ..
BfsPop ==
    /\ pc = "bfs_while"
    /\ queue # <<>>
    /\ current' = Head(queue)
    /\ queue' = Tail(queue)
    /\ result' = Append(result, Head(queue)[1])
    /\ pending' = bfs_expand(ont, Head(queue)[1], Head(queue)[2], max_depth)
    /\ pc' = IF pending' = {} THEN "bfs_while" ELSE "bfs_for"
    /\ UNCHANGED <<ontVars, queryVars, start_id, max_depth, end_id, visited, predecessors, path>>
    /\ UNCHANGED runtimeVars

\* the for loop of bfs without the visited test: every neighbor is queued
BfsVisit_revisiting ==
    /\ pc = "bfs_for"
    /\ \E neighbor \in pending :
          /\ pending' = pending \ {neighbor}
          /\ visited' = visited \cup {neighbor}
          /\ queue' = Append(queue, <<neighbor, current[2] + 1>>)
    /\ pc' = IF pending' = {} THEN "bfs_while" ELSE "bfs_for"
    /\ UNCHANGED <<ontVars, queryVars, start_id, max_depth, end_id, result, predecessors,
                   current, path>>
    /\ UNCHANGED runtimeVars

\* one iteration of "for &neighbor in neighbors", in any iteration order
BfsVisit ==
    /\ pc = "bfs_for"
    /\ \E neighbor \in pending :
          /\ pending' = pending \ {neighbor}
          /\ IF neighbor \notin visited
             THEN /\ visited' = visited \cup {neighbor}
                  /\ queue' = Append(queue, <<neighbor, current[2] + 1>>)
             ELSE UNCHANGED <<visited, queue>>
    /\ pc' = IF pending' = {} THEN "bfs_while" ELSE "bfs_for"
    /\ UNCHANGED <<ontVars, queryVars, start_id, max_depth, end_id, result, predecessors,
                   current, path>>
    /\ UNCHANGED runtimeVars

\* the queue is empty: return result
BfsReturn ==
    /\ pc = "bfs_while"
    /\ queue = <<>>
    /\ pc' = "bfs_done"
    /\ UNCHANGED <<ontVars, queryVars, start_id, max_depth, end_id, visited, queue, result,
                   predecessors, current, pending, path>>
    /\ UNCHANGED runtimeVars

BfsNext ==
    \/ BfsPop
    \/ BfsVisit
    \/ BfsReturn

SpecBfs == BfsInit /\ [][BfsNext]_vars

Reverse(seq) == [i \in 1 .. Len(seq) |-> seq[Len(seq) + 1 - i]]

\* "while let Some(&pred) = predecessors.get(&node) { path.push(pred); node = pred; }"
RECURSIVE PushPredecessors(_, _, _)
PushPredecessors(preds, node, p) ==
    IF node \in DOMAIN preds
    THEN PushPredecessors(preds, preds[node], Append(p, preds[node]))
    ELSE p

\* the path reconstruction without path.reverse()
reconstruct_path_unreversed(preds, end) == PushPredecessors(preds, end, <<end>>)

\* shortest_path: the path reconstruction at current == end_id
reconstruct_path(preds, end) == Reverse(PushPredecessors(preds, end, <<end>>))

SpInit ==
    /\ GraphInit
    /\ \E s \in Nodes, e \in Nodes :
          /\ start_id = s
          /\ end_id = e
          /\ queue = <<s>>
          /\ visited = {s}
    /\ predecessors = EmptyMap
    /\ pc = "sp_while"
    /\ max_depth = 0
    /\ result = <<>>
    /\ current = <<>>
    /\ pending = {}
    /\ path = <<>>

\* while let Some(current) = queue.pop_front() { if current == end_id { .. return
SpPop ==
    /\ pc = "sp_while"
    /\ queue # <<>>
    /\ current' = <<Head(queue)>>
    /\ queue' = Tail(queue)
    /\ IF Head(queue) = end_id
       THEN /\ path' = Some(reconstruct_path(predecessors, end_id))
            /\ pc' = "sp_done"
            /\ UNCHANGED pending
       ELSE /\ pending' = GetOr(ont.adjacency_list, Head(queue), {})
            /\ pc' = IF pending' = {} THEN "sp_while" ELSE "sp_for"
            /\ UNCHANGED path
    /\ UNCHANGED <<ontVars, queryVars, start_id, max_depth, end_id, visited, result, predecessors>>
    /\ UNCHANGED runtimeVars

\* one iteration of "for &neighbor in neighbors", in any iteration order
SpVisit ==
    /\ pc = "sp_for"
    /\ \E neighbor \in pending :
          /\ pending' = pending \ {neighbor}
          /\ IF neighbor \notin visited
             THEN /\ visited' = visited \cup {neighbor}
                  /\ predecessors' = Put(predecessors, neighbor, current[1])
                  /\ queue' = Append(queue, neighbor)
             ELSE UNCHANGED <<visited, predecessors, queue>>
    /\ pc' = IF pending' = {} THEN "sp_while" ELSE "sp_for"
    /\ UNCHANGED <<ontVars, queryVars, start_id, max_depth, end_id, result, current, path>>
    /\ UNCHANGED runtimeVars

\* the queue is empty: return None
SpReturnNone ==
    /\ pc = "sp_while"
    /\ queue = <<>>
    /\ path' = <<>>
    /\ pc' = "sp_done"
    /\ UNCHANGED <<ontVars, queryVars, start_id, max_depth, end_id, visited, queue, result,
                   predecessors, current, pending>>
    /\ UNCHANGED runtimeVars

SpNext ==
    \/ SpPop
    \/ SpVisit
    \/ SpReturnNone

SpecPath == SpInit /\ [][SpNext]_vars

\* ----------------------------------------------------------------- query
\* A &Entity is its id: Vec::contains on Vec<&Entity> compares entities, and
\* two entities of one map are equal only if they are the same entry.
Contains(seq, e) == \E i \in 1 .. Len(seq) : seq[i] = e

\* query expressions (enum QueryExpr); Not holds its boxed operand in sub
ConceptExpr(c) == [kind |-> "Concept", concept_id |-> c]

AttrFilterExpr(n, op, v) == [kind |-> "AttrFilter", attr_name |-> n, op |-> op, value |-> v]

LogicalExpr(op, exprs) == [kind |-> "Logical", op |-> op, exprs |-> exprs]

NotExpr(e) == [kind |-> "Not", sub |-> e]

\* compare_ord; the data of a value is an integer that keeps the order of
\* the Rust values (false < true is 0 < 1)
compare_ord(a, b, op) ==
    CASE op = "Eq" -> a = b
      [] op = "Neq" -> a # b
      [] op = "Gt" -> a > b
      [] op = "Lt" -> a < b
      [] op = "Gte" -> a >= b
      [] op = "Lte" -> a <= b

\* compare_attribute_values with Neq answering true on mismatched variants
compare_attribute_values_neq_mismatch(val, op, cmp_val) ==
    IF val.variant # cmp_val.variant THEN op = "Neq"
    ELSE IF val.variant = "Reference"
         THEN CASE op = "Eq" -> val.data = cmp_val.data
                [] op = "Neq" -> val.data # cmp_val.data
                [] OTHER -> FALSE
         ELSE compare_ord(val.data, cmp_val.data, op)

\* compare_attribute_values with Boolean sent to the equality-only arm
compare_attribute_values_bool_eq_only(val, op, cmp_val) ==
    IF val.variant # cmp_val.variant THEN FALSE
    ELSE IF val.variant \in {"Reference", "Boolean"}
         THEN CASE op = "Eq" -> val.data = cmp_val.data
                [] op = "Neq" -> val.data # cmp_val.data
                [] OTHER -> FALSE
         ELSE compare_ord(val.data, cmp_val.data, op)

\* compare_attribute_values
compare_attribute_values(val, op, cmp_val) ==
    IF val.variant # cmp_val.variant THEN FALSE
    ELSE IF val.variant = "Reference"
         THEN CASE op = "Eq" -> val.data = cmp_val.data
                [] op = "Neq" -> val.data # cmp_val.data
                [] OTHER -> FALSE
         ELSE compare_ord(val.data, cmp_val.data, op)

\* the scan keeping every entity that holds the attribute, whatever its value
find_entities_by_attribute_filter_any_value(o, order, filter) ==
    SelectSeq(order, LAMBDA id :
        filter.attr_name \in DOMAIN o.entities[id].attribute_values)

\* find_entities_by_attribute_filter: self.entities.values().filter(..)
find_entities_by_attribute_filter(o, order, filter) ==
    SelectSeq(order, LAMBDA id :
        IF filter.attr_name \in DOMAIN o.entities[id].attribute_values
        THEN compare_attribute_values(
                 o.entities[id].attribute_values[filter.attr_name],
                 filter.op, filter.value)
        ELSE FALSE)

\* find_entities_by_concept answering nothing for an id the concept table lacks
find_entities_by_concept_known(o, order, concept_id) ==
    IF concept_id \in DOMAIN o.concepts
    THEN SelectSeq(order, LAMBDA id : o.entities[id].concept_id = concept_id)
    ELSE <<>>

\* find_entities_by_concept: a linear scan for entity.concept_id == id
find_entities_by_concept(o, order, concept_id) ==
    SelectSeq(order, LAMBDA id : o.entities[id].concept_id = concept_id)

\* sets.iter().skip(1).fold(.., |acc, s| acc.into_iter().filter(|e| s.contains(e)))
RECURSIVE fold_filter(_, _)
fold_filter(acc, rest) ==
    IF rest = <<>> THEN acc
    ELSE fold_filter(SelectSeq(acc, LAMBDA ent : Contains(Head(rest), ent)), Tail(rest))

\* the And arm with .skip(2): the second result set is never intersected
intersect_all_skip_two(sets) ==
    IF sets = <<>> THEN <<>>
    ELSE fold_filter(sets[1], SubSeq(sets, 3, Len(sets)))

\* LogicalOp::And arm of query
intersect_all(sets) ==
    IF sets = <<>> THEN <<>> ELSE fold_filter(sets[1], Tail(sets))

\* for e in s { if !union.contains(&e) { union.push(e); } }
RECURSIVE push_new(_, _)
push_new(union, s) ==
    IF s = <<>> THEN union
    ELSE push_new(IF Contains(union, Head(s)) THEN union ELSE Append(union, Head(s)),
                  Tail(s))

RECURSIVE fold_push_new(_, _)
fold_push_new(union, sets) ==
    IF sets = <<>> THEN union
    ELSE fold_push_new(push_new(union, Head(sets)), Tail(sets))

\* LogicalOp::Or arm of query
union_all(sets) == fold_push_new(<<>>, sets)

\* the Not arm keeping the entities the sub-query returned
all_entities_except_kept(order, sub_results) ==
    SelectSeq(order, LAMBDA id : Contains(sub_results, id))

\* QueryExpr::Not arm of query: all_entities is self.entities.values()
all_entities_except(order, sub_results) ==
    SelectSeq(order, LAMBDA id : ~Contains(sub_results, id))

RECURSIVE query(_, _, _)

\* exprs.iter().map(|e| self.query(e)).collect()
RECURSIVE query_each(_, _, _)
query_each(o, order, exprs) ==
    IF exprs = <<>> THEN <<>>
    ELSE <<query(o, order, Head(exprs))>> \o query_each(o, order, Tail(exprs))

\* Ontology::query; order is the iteration order of self.entities
query(o, order, qe) ==
    CASE qe.kind = "Concept" -> find_entities_by_concept(o, order, qe.concept_id)
      [] qe.kind = "AttrFilter" -> find_entities_by_attribute_filter(o, order, qe)
      [] qe.kind = "Logical" ->
            LET sets == query_each(o, order, qe.exprs)
            IN (CASE qe.op = "And" -> intersect_all(sets)
                  [] qe.op = "Or" -> union_all(sets)
                  [] qe.op = "Not" -> <<>>)
      [] qe.kind = "Not" ->
            LET sub_results == query(o, order, qe.sub)
            IN all_entities_except(order, sub_results)

\* the graphs the queries run on: concept "Person" (id 1), then up to
\* MaxEntities entities of concept 1 or of the missing concept 2
QueryEntityInputs ==
    {1, 2} \X {EmptyMap, [age |-> Integer(25)],
               [age |-> Integer(30), name |-> String(1)]}

RECURSIVE AddEntitySeq(_, _)
AddEntitySeq(o, inputs) ==
    IF inputs = <<>> THEN o
    ELSE AddEntitySeq(add_entity(o, Head(inputs)[1], Head(inputs)[2]), Tail(inputs))

QueryGraphs ==
    {AddEntitySeq(add_concept(Ontology_new, "Person", {}, [age |-> "Integer"]), inputs) :
        inputs \in UNION {[1 .. n -> QueryEntityInputs] : n \in 0 .. MaxEntities}}

\* every order in which a HashMap with key set S may yield its entries
Orders(S) ==
    {f \in [1 .. Cardinality(S) -> S] :
        \A i \in 1 .. Cardinality(S), j \in 1 .. Cardinality(S) : i # j => f[i] # f[j]}

\* operands of the Logical expressions queried
Operands ==
    {ConceptExpr(1),
     AttrFilterExpr("age", "Gt", Integer(25)),
     AttrFilterExpr("name", "Eq", String(1)),
     NotExpr(ConceptExpr(1)),
     LogicalExpr("Or", <<ConceptExpr(2), AttrFilterExpr("age", "Eq", Integer(25))>>)}

QueryInputs ==
    {LogicalExpr(op, exprs) :
        op \in {"And", "Or", "Not"},
        exprs \in UNION {[1 .. n -> Operands] : n \in 0 .. MaxExprs}}

\* Not at the top of the expression, over a leaf, a Not and a Logical
NotInputs ==
    {NotExpr(x) : x \in Operands}
        \cup {NotExpr(NotExpr(AttrFilterExpr("age", "Gt", Integer(25)))),
              NotExpr(LogicalExpr("And", <<ConceptExpr(1),
                                           AttrFilterExpr("age", "Gt", Integer(25))>>))}

\* the entities the leaf queries run on: Integer, String, Boolean and
\* Reference values, "age" stored under two variants
FilterEntityInputs ==
    {<<1, EmptyMap>>,
     <<1, [age |-> Integer(25)]>>,
     <<2, [age |-> Integer(30), flag |-> Boolean(1)]>>,
     <<1, [flag |-> Boolean(0), ref |-> Reference(1)]>>,
     <<2, [flag |-> Boolean(1), ref |-> Reference(2)]>>,
     <<2, [age |-> String(1)]>>}

FilterGraphs ==
    {AddEntitySeq(add_concept(Ontology_new, "Person", {}, [age |-> "Integer"]), inputs) :
        inputs \in UNION {[1 .. n -> FilterEntityInputs] : n \in 0 .. MaxEntities}}

ComparisonOps == {"Eq", "Neq", "Gt", "Lt", "Gte", "Lte"}

\* filter values of every variant stored; "height" is a name no entity holds
FilterNames == {"age", "flag", "ref", "height"}

FilterValues ==
    {Integer(25), Integer(30), String(1), Boolean(0), Boolean(1),
     Reference(1), Reference(2)}

\* the leaf expressions queried; concept 3 is the concept of no entity
FilterInputs ==
    {ConceptExpr(c) : c \in {1, 2, 3}}
        \cup {AttrFilterExpr(n, op, v) :
                 n \in FilterNames, op \in ComparisonOps, v \in FilterValues}

QueryInit ==
    /\ \/ ont \in QueryGraphs /\ expr \in QueryInputs \cup NotInputs
       \/ ont \in FilterGraphs /\ expr \in FilterInputs
    /\ storage = <<>>
    /\ outcome = NoOutcome
    /\ saved = <<>>
    /\ NoRuntime
    /\ returned = [k \in 1 .. ont.next_id - 1 |-> k]
    /\ scan \in Orders(DOMAIN ont.entities)
    /\ matches = <<>>
    /\ pc = "query"
    /\ start_id = 0
    /\ max_depth = 0
    /\ end_id = 0
    /\ visited = {}
    /\ queue = <<>>
    /\ result = <<>>
    /\ predecessors = EmptyMap
    /\ current = <<>>
    /\ pending = {}
    /\ path = <<>>

Query ==
    /\ pc = "query"
    /\ matches' = query(ont, scan, expr)
    /\ pc' = "query_done"
    /\ UNCHANGED <<ontVars, scan, expr, start_id, max_depth, end_id, visited, queue,
                   result, predecessors, current, pending, path>>
    /\ UNCHANGED runtimeVars

SpecQuery == QueryInit /\ [][Query]_vars

SpecAdd == Init /\ [][AddConcept \/ AddEntity \/ AddRelationship]_vars

\* the calls that take &self: one bfs, shortest_path or query call on a graph,
\* then save_to_storage any number of times
ReadInit == BfsInit \/ SpInit \/ QueryInit

SaveAfterRead ==
    /\ pc \in {"bfs_done", "sp_done", "query_done"}
    /\ SaveToStorage

ReadNext ==
    \/ BfsNext
    \/ SpNext
    \/ Query
    \/ SaveAfterRead

SpecReads == ReadInit /\ [][ReadNext]_vars

\* ------------------------------------------------------- claims C1 .. C7
\* names and values probed, with one name and one value nothing ever holds
ProbeNames == AttrNames \cup DOMAIN ont.attribute_index \cup {"height"}

ProbeValues ==
    UNION {AttrValuesOf(n) : n \in AttrNames} \cup {Integer(99)}
        \cup UNION {DOMAIN ont.attribute_index[n] : n \in DOMAIN ont.attribute_index}

ProbeIds == RefIds \cup (1 .. MaxCalls + 1)

ProbeTypes == RelTypes \cup {WorksAt}

EntitiesHolding(n, v) ==
    {e \in DOMAIN ont.entities :
        /\ n \in DOMAIN ont.entities[e].attribute_values
        /\ ont.entities[e].attribute_values[n] = v}

RelationshipsFrom(f) ==
    {r \in DOMAIN ont.relationships : ont.relationships[r].from_entity = f}

TargetsFrom(f) == {ont.relationships[r].to_entity : r \in RelationshipsFrom(f)}

\* C1: attribute_index[n][v] (empty when absent) is exactly the set of ids of
\* the entities whose attribute_values[n] is v, and
\* find_entities_by_attribute_indexed(n, v) returns exactly those entities
C1_AttributeIndexExact ==
    \A n \in ProbeNames, v \in ProbeValues :
        /\ GetOr(GetOr(ont.attribute_index, n, EmptyMap), v, {}) = EntitiesHolding(n, v)
        /\ find_entities_by_attribute_indexed(ont, n, v) = EntitiesHolding(n, v)

\* two entities share one bucket while another bucket of the same name and a
\* second name are indexed too
C1_Witness ==
    /\ \E v \in ProbeValues : Cardinality(EntitiesHolding("age", v)) = 2
    /\ Cardinality(DOMAIN ont.attribute_index) = 2

\* C2: relationship_index[f][t] (empty when absent) is exactly the set of ids
\* of the relationships from f of type t; get_relationships_indexed(f, Some(t))
\* returns those and get_relationships_indexed(f, None) all relationships from f
C2_RelationshipIndexExact ==
    \A f \in ProbeIds \cup DOMAIN ont.relationship_index :
        /\ \A t \in ProbeTypes \cup DOMAIN GetOr(ont.relationship_index, f, EmptyMap) :
              LET typed == {r \in RelationshipsFrom(f) :
                              ont.relationships[r].rel_type = t}
              IN /\ GetOr(GetOr(ont.relationship_index, f, EmptyMap), t, {}) = typed
                 /\ get_relationships_indexed(ont, f, Some(t)) = typed
        /\ get_relationships_indexed(ont, f, NoFilter) = RelationshipsFrom(f)

\* one entity has outgoing relationships of two types, two of them of one type
C2_Witness ==
    \E f \in ProbeIds :
        /\ Cardinality(get_relationships_indexed(ont, f, NoFilter)) = 3
        /\ Cardinality(get_relationships_indexed(ont, f, Some(FriendOf))) = 2

\* C3: adjacency_list[f] (empty when absent) is exactly the set of to_entity
\* values of the relationships from f, whatever their type
C3_AdjacencyExact ==
    \A f \in ProbeIds \cup DOMAIN ont.adjacency_list :
        GetOr(ont.adjacency_list, f, {}) = TargetsFrom(f)

\* three relationships from one entity reach two distinct targets
C3_Witness ==
    \E f \in ProbeIds :
        /\ Cardinality(RelationshipsFrom(f)) = 3
        /\ Cardinality(GetOr(ont.adjacency_list, f, {})) = 2

\* C4 as stated: get_neighbors(e) returns exactly the distinct to_entity
\* values of the relationships from e
C4_NeighborsAreAllTargets ==
    \A e \in ProbeIds : get_neighbors(ont, e) = TargetsFrom(e)

\* C4 amended: get_neighbors(e) returns exactly the to_entity values of the
\* relationships from e that are keys of the entity map
C4_NeighborsAreEntityTargets ==
    \A e \in ProbeIds : get_neighbors(ont, e) = TargetsFrom(e) \cap DOMAIN ont.entities

\* an entity with one neighbour that is an entity and one target that is not
C4_Witness ==
    \E e \in ProbeIds :
        /\ get_neighbors(ont, e) # {}
        /\ TargetsFrom(e) \ DOMAIN ont.entities # {}

\* C5 as stated: every id in an attribute_index bucket, every key of
\* relationship_index and every key and member of adjacency_list is a key of
\* the entity map
C5_IndexIdsAreEntities ==
    /\ \A n \in DOMAIN ont.attribute_index : \A v \in DOMAIN ont.attribute_index[n] :
          ont.attribute_index[n][v] \subseteq DOMAIN ont.entities
    /\ DOMAIN ont.relationship_index \subseteq DOMAIN ont.entities
    /\ DOMAIN ont.adjacency_list \subseteq DOMAIN ont.entities
    /\ \A f \in DOMAIN ont.adjacency_list :
          ont.adjacency_list[f] \subseteq DOMAIN ont.entities

\* C5 amended: every id in an attribute_index bucket is a key of the entity
\* map; the keys of relationship_index and of adjacency_list are from_entity
\* values, and the members of adjacency_list to_entity values, of stored
\* relationships
C5_IndexIdsAreStored ==
    /\ \A n \in DOMAIN ont.attribute_index : \A v \in DOMAIN ont.attribute_index[n] :
          ont.attribute_index[n][v] \subseteq DOMAIN ont.entities
    /\ \A f \in DOMAIN ont.relationship_index \cup DOMAIN ont.adjacency_list :
          RelationshipsFrom(f) # {}
    /\ \A f \in DOMAIN ont.adjacency_list :
          ont.adjacency_list[f] \subseteq TargetsFrom(f)

\* an indexed entity beside a relationship whose endpoints are no entities
C5_Witness ==
    /\ \E n \in DOMAIN ont.attribute_index : \E v \in DOMAIN ont.attribute_index[n] :
          ont.attribute_index[n][v] # {}
    /\ \E f \in DOMAIN ont.adjacency_list :
          /\ f \notin DOMAIN ont.entities
          /\ ont.adjacency_list[f] \ DOMAIN ont.entities # {}

\* C6: over add_* calls alone the k-th call returns k (the allocator starts
\* at 1 and advances by one per call, whatever the kind), so the returned ids
\* increase strictly; the key sets of the three maps are pairwise disjoint
\* and below next_id
C6_SharedAllocator ==
    /\ \A k \in 1 .. Len(returned) : returned[k] = k
    /\ ont.next_id = Len(returned) + 1
    /\ DOMAIN ont.concepts \cap DOMAIN ont.entities = {}
    /\ DOMAIN ont.concepts \cap DOMAIN ont.relationships = {}
    /\ DOMAIN ont.entities \cap DOMAIN ont.relationships = {}
    /\ \A id \in DOMAIN ont.concepts \cup DOMAIN ont.entities
                    \cup DOMAIN ont.relationships : id < ont.next_id

\* one record of each kind was added
C6_Witness ==
    /\ Len(returned) = 3
    /\ DOMAIN ont.concepts # {}
    /\ DOMAIN ont.entities # {}
    /\ DOMAIN ont.relationships # {}

\* C7 as stated: over add_*, save_to_storage and load_from_storage calls no id
\* is returned by two different add_* calls
C7_IdsNeverReused ==
    \A i \in 1 .. Len(returned), j \in 1 .. Len(returned) :
        i # j => returned[i] # returned[j]

\* ------------------------------------------------------- claims C8 .. C9
\* the ids within k hops of s along adjacency_list edges
RECURSIVE WithinHops(_, _)
WithinHops(s, k) ==
    IF k = 0 THEN {s}
    ELSE LET near == WithinHops(s, k - 1)
         IN near \cup UNION {GetOr(ont.adjacency_list, n, {}) : n \in near}

Reachable(a) == WithinHops(a, NumNodes)

HopDistance(a, b) ==
    CHOOSE k \in 0 .. NumNodes :
        /\ b \in WithinHops(a, k)
        /\ \A j \in 0 .. k - 1 : b \notin WithinHops(a, j)

Elements(seq) == {seq[i] : i \in 1 .. Len(seq)}

\* C8: bfs(s, d) returns a sequence without a repeated id, that starts with
\* s, and whose elements are exactly the ids within d hops of s; bfs(s, 0) is [s]
C8_BfsWithinDepth ==
    pc = "bfs_done" =>
        /\ \A i \in 1 .. Len(result), j \in 1 .. Len(result) :
              i # j => result[i] # result[j]
        /\ Len(result) >= 1
        /\ result[1] = start_id
        /\ Elements(result) = WithinHops(start_id, max_depth)
        /\ max_depth = 0 => result = <<start_id>>

\* a finished bfs that returned more than the start and that the depth bound
\* kept from an id reachable further out
C8_Witness ==
    /\ pc = "bfs_done"
    /\ Len(result) >= 2
    /\ Reachable(start_id) \ Elements(result) # {}

\* C9: shortest_path(a, b) is None exactly when b is not reachable from a
\* along the stored direction of the edges; otherwise it is Some(path) where
\* path starts at a, ends at b, steps along adjacency_list edges only and has
\* as many edges as the hop-distance from a to b
C9_ShortestPath ==
    pc = "sp_done" =>
        /\ path = <<>> <=> end_id \notin Reachable(start_id)
        /\ path # <<>> =>
              LET p == path[1]
              IN /\ p[1] = start_id
                 /\ p[Len(p)] = end_id
                 /\ \A i \in 1 .. Len(p) - 1 :
                       p[i + 1] \in GetOr(ont.adjacency_list, p[i], {})
                 /\ Len(p) - 1 = HopDistance(start_id, end_id)

\* a path of two edges was returned although the end also lies on a cycle
\* back to the start
C9_Witness ==
    /\ pc = "sp_done"
    /\ path # <<>>
    /\ Len(path[1]) = 3
    /\ start_id \in GetOr(ont.adjacency_list, end_id, {})

\* a reverse edge alone gives no path: None although the start is a
\* neighbour of the end
C9_WitnessNone ==
    /\ pc = "sp_done"
    /\ path = <<>>
    /\ start_id \in GetOr(ont.adjacency_list, end_id, {})

\* ------------------------------------------------------------ claim C10
SubResult(i) == Elements(query(ont, scan, expr.exprs[i]))

\* C10: as a set of entities, query(Logical{And, exprs}) is the intersection
\* and query(Logical{Or, exprs}) the union of query(e) over the e in exprs;
\* both are empty for an empty exprs
C10_AndOrSetAlgebra ==
    (pc = "query_done" /\ expr.kind = "Logical") =>
        /\ expr.op = "And" =>
              Elements(matches) =
                  IF expr.exprs = <<>> THEN {}
                  ELSE {e \in DOMAIN ont.entities :
                          \A i \in 1 .. Len(expr.exprs) : e \in SubResult(i)}
        /\ expr.op = "Or" =>
              Elements(matches) =
                  {e \in DOMAIN ont.entities :
                      \E i \in 1 .. Len(expr.exprs) : e \in SubResult(i)}

\* an And of two operands whose results overlap without being equal: the
\* fold dropped an entity of the first result and kept another
C10_Witness ==
    /\ pc = "query_done"
    /\ expr.kind = "Logical"
    /\ expr.op = "And"
    /\ Len(expr.exprs) = 2
    /\ matches # <<>>
    /\ Elements(matches) # SubResult(1)

\* an Or of two operands neither of whose results contains the other
C10_WitnessOr ==
    /\ pc = "query_done"
    /\ expr.kind = "Logical"
    /\ expr.op = "Or"
    /\ Len(expr.exprs) = 2
    /\ Elements(matches) # SubResult(1)
    /\ Elements(matches) # SubResult(2)

\* ----------------------------------------------------- claims C11 .. C14
\* the entities a sub-query returns, and all the entities it does not return
Returned(x) == Elements(query(ont, scan, x))

Complement(x) == DOMAIN ont.entities \ Returned(x)

\* what an operand stands for: the complement of its operand when it is a Not
Denoted(x) == IF x.kind = "Not" THEN Complement(x.sub) ELSE Returned(x)

\* C11: query(Not(X)) is, as a set, all entities minus query(X); the
\* complement is taken against the whole entity map also when the Not is an
\* operand of And or of Or
C11_NotIsComplement ==
    pc = "query_done" =>
        /\ expr.kind = "Not" => Elements(matches) = Complement(expr.sub)
        /\ (expr.kind = "Logical" /\ expr.exprs # <<>> /\ expr.op = "And") =>
              Elements(matches) =
                  {e \in DOMAIN ont.entities :
                      \A i \in 1 .. Len(expr.exprs) : e \in Denoted(expr.exprs[i])}
        /\ (expr.kind = "Logical" /\ expr.op = "Or") =>
              Elements(matches) =
                  {e \in DOMAIN ont.entities :
                      \E i \in 1 .. Len(expr.exprs) : e \in Denoted(expr.exprs[i])}

\* a Not whose operand returns some entities and not all of them
C11_Witness ==
    /\ pc = "query_done"
    /\ expr.kind = "Not"
    /\ matches # <<>>
    /\ Returned(expr.sub) # {}

\* an And whose Not operand removes an entity the other operand returned
C11_WitnessNested ==
    /\ pc = "query_done"
    /\ expr.kind = "Logical"
    /\ expr.op = "And"
    /\ Len(expr.exprs) = 2
    /\ expr.exprs[1].kind # "Not"
    /\ expr.exprs[2].kind = "Not"
    /\ matches # <<>>
    /\ Elements(matches) # SubResult(1)

\* C12: query(Concept(c)) returns exactly the entities whose concept_id is c,
\* each once, also when c is no key of the concept table
C12_ConceptScan ==
    (pc = "query_done" /\ expr.kind = "Concept") =>
        /\ Elements(matches) =
              {e \in DOMAIN ont.entities : ont.entities[e].concept_id = expr.concept_id}
        /\ Len(matches) = Cardinality(Elements(matches))

\* the concept queried is missing from the concept table, one entity refers
\* to it and another entity does not
C12_Witness ==
    /\ pc = "query_done"
    /\ expr.kind = "Concept"
    /\ expr.concept_id \notin DOMAIN ont.concepts
    /\ matches # <<>>
    /\ Elements(matches) # DOMAIN ont.entities

\* the entities whose value under the filter's name has the filter's variant
SameVariant ==
    {e \in DOMAIN ont.entities :
        /\ expr.attr_name \in DOMAIN ont.entities[e].attribute_values
        /\ ont.entities[e].attribute_values[expr.attr_name].variant = expr.value.variant}

Stored(e) == ont.entities[e].attribute_values[expr.attr_name].data

\* what each ComparisonOp asks of the stored value a and the filter value b
OpHolds(op, a, b) ==
    \/ op = "Eq" /\ a = b
    \/ op = "Neq" /\ ~(a = b)
    \/ op = "Gt" /\ b < a
    \/ op = "Lt" /\ a < b
    \/ op = "Gte" /\ ~(a < b)
    \/ op = "Lte" /\ ~(b < a)

FalseData == Boolean(0).data

TrueData == Boolean(1).data

\* the six operators on two Boolean values under false < true
BooleanOpHolds(op, a, b) ==
    CASE op = "Eq" -> a = b
      [] op = "Neq" -> a # b
      [] op = "Gt" -> a = TrueData /\ b = FalseData
      [] op = "Lt" -> a = FalseData /\ b = TrueData
      [] op = "Gte" -> ~(a = FalseData /\ b = TrueData)
      [] op = "Lte" -> ~(a = TrueData /\ b = FalseData)

\* C14: against a Reference value only Eq and Neq are evaluated and Gt, Lt,
\* Gte, Lte return no entity; against a Boolean value all six operators are
\* evaluated under false < true
C14_ReferenceAndBoolean ==
    (pc = "query_done" /\ expr.kind = "AttrFilter") =>
        /\ expr.value.variant = "Reference" =>
              Elements(matches) =
                  {e \in SameVariant :
                      \/ expr.op = "Eq" /\ Stored(e) = expr.value.data
                      \/ expr.op = "Neq" /\ Stored(e) # expr.value.data}
        /\ expr.value.variant = "Boolean" =>
              Elements(matches) =
                  {e \in SameVariant :
                      BooleanOpHolds(expr.op, Stored(e), expr.value.data)}

\* Gt Boolean(false) returns the entity holding true, not the one holding false
C14_Witness ==
    /\ pc = "query_done"
    /\ expr = AttrFilterExpr("flag", "Gt", Boolean(FalseData))
    /\ matches # <<>>
    /\ \E e \in SameVariant : Stored(e) = FalseData /\ e \notin Elements(matches)

\* Gte against the very Reference an entity holds returns nothing
C14_WitnessReference ==
    /\ pc = "query_done"
    /\ expr.kind = "AttrFilter"
    /\ expr.op = "Gte"
    /\ expr.value.variant = "Reference"
    /\ \E e \in SameVariant : Stored(e) = expr.value.data
    /\ matches = <<>>

\* ----------------------------------------------------- claims C15 .. C17
\* the graph of a freshly constructed Ontology after its load_from_storage,
\* on the backend as the save_to_storage of the graph in memory leaves it;
\* the backend itself fails neither call
Reloaded ==
    load_from_storage(Ontology_new,
                      save_to_storage(ont, storage, FALSE).storage, FALSE).ont

\* C15: for every graph built by add_* calls, save_to_storage followed by
\* load_from_storage on a fresh Ontology over the same backend gives the same
\* records, the same next id and the same answers of the indexed lookups and
\* of get_neighbors
C15_RoundTrip ==
    /\ Reloaded.next_id = ont.next_id
    /\ Reloaded.concepts = ont.concepts
    /\ Reloaded.concepts_by_name = ont.concepts_by_name
    /\ Reloaded.entities = ont.entities
    /\ Reloaded.relationships = ont.relationships
    /\ \A n \in ProbeNames, v \in ProbeValues :
          find_entities_by_attribute_indexed(Reloaded, n, v) =
              find_entities_by_attribute_indexed(ont, n, v)
    /\ \A f \in ProbeIds :
          /\ get_neighbors(Reloaded, f) = get_neighbors(ont, f)
          /\ \A t \in ProbeTypes :
                get_relationships_indexed(Reloaded, f, Some(t)) =
                    get_relationships_indexed(ont, f, Some(t))

\* C16: a call of load_from_storage changes the graph only when the backend
\* holds a blob and the call returns Ok; with an empty backend, and whenever
\* the call returns the error, every field is left as it was, and the backend
\* is never written
C16_LoadChangesOnlyOnSnapshot ==
    [][LoadFromStorage =>
          /\ storage' = storage
          /\ outcome' \in {Ok, Err}
          /\ storage = <<>> => ont' = ont
          /\ outcome' = Err => ont' = ont
          /\ ont' # ont =>
                /\ storage # <<>>
                /\ outcome' = Ok
                /\ ont' = from_slice(storage[1])]_vars

\* load_from_storage returned Ok on an empty backend and the graph built
\* before the call is in place
C16_Witness ==
    /\ outcome = Ok
    /\ storage = <<>>
    /\ DOMAIN ont.entities # {}
    /\ DOMAIN ont.attribute_index # {}

\* load_from_storage returned the error with a snapshot in the backend and the
\* graph in memory is not the snapshot's
C16_WitnessErr ==
    /\ outcome = Err
    /\ storage # <<>>
    /\ ont # saved[1]

\* C17: after load_from_storage returned Ok with a snapshot in the backend,
\* every field equals its value at the most recent save that returned Ok, and
\* no record with an id allocated after that save is present
C17_ReloadReplaces ==
    (outcome = Ok /\ storage # <<>>) =>
        /\ ont = saved[1]
        /\ \A id \in DOMAIN ont.concepts \cup DOMAIN ont.entities
                     \cup DOMAIN ont.relationships : id < saved[1].next_id

\* two records were added after the save of a graph with one entity, and the
\* reload returned Ok
C17_Witness ==
    /\ outcome = Ok
    /\ storage # <<>>
    /\ DOMAIN ont.entities # {}
    /\ Len(returned) >= saved[1].next_id + 1

\* ----------------------------------------------------- claims C18 .. C20
\* the ids of the concepts stored under name n
ConceptsNamed(o, n) == {id \in DOMAIN o.concepts : o.concepts[id].name = n}

\* C18: concepts_by_name is last-write-wins: a call of add_concept with name n
\* makes concepts_by_name[n] the id it returns and leaves the other names
\* alone, no other call touches the map, so concepts_by_name[n] is always the
\* newest concept named n; every concept stored earlier stays stored unchanged
\* and get_concept returns it under its own id
C18_NameLookupLastWins ==
    /\ [](\A n \in ConceptNames \cup DOMAIN ont.concepts_by_name :
             /\ n \in DOMAIN ont.concepts_by_name <=> ConceptsNamed(ont, n) # {}
             /\ n \in DOMAIN ont.concepts_by_name =>
                   /\ ont.concepts_by_name[n] \in ConceptsNamed(ont, n)
                   /\ \A id \in ConceptsNamed(ont, n) : id <= ont.concepts_by_name[n])
    /\ [][/\ \A id \in DOMAIN ont.concepts :
                /\ get_concept(ont', id) = Some(ont.concepts[id])
                /\ ont.concepts[id].id = id
          /\ IF DOMAIN ont'.concepts # DOMAIN ont.concepts
             THEN LET id == ont.next_id
                      n == ont'.concepts[id].name
                  IN /\ DOMAIN ont'.concepts = DOMAIN ont.concepts \cup {id}
                     /\ returned' = Append(returned, id)
                     /\ ont'.concepts_by_name = Put(ont.concepts_by_name, n, id)
             ELSE ont'.concepts_by_name = ont.concepts_by_name]_vars

\* two concepts share a name, the name leads to the later one and get_concept
\* still returns the earlier one
C18_Witness ==
    \E a \in DOMAIN ont.concepts, b \in DOMAIN ont.concepts :
        /\ a < b
        /\ ont.concepts[a].name = ont.concepts[b].name
        /\ ont.concepts_by_name[ont.concepts[a].name] = b
        /\ get_concept(ont, a) = Some(ont.concepts[a])
        /\ ont.concepts[a].id = a

AttributeBucket(o, n, v) == GetOr(GetOr(o.attribute_index, n, EmptyMap), v, {})

RelationshipBucket(o, f, t) == GetOr(GetOr(o.relationship_index, f, EmptyMap), t, {})

StoredIds(o) ==
    DOMAIN o.concepts \cup DOMAIN o.entities \cup DOMAIN o.relationships

\* the relationships of o with the triple of r
SameTriple(o, r) ==
    {x \in DOMAIN o.relationships :
        /\ o.relationships[x].from_entity = r.from_entity
        /\ o.relationships[x].to_entity = r.to_entity
        /\ o.relationships[x].rel_type = r.rel_type}

\* C19: every add_* call, whether or not the concept or the endpoints it
\* names exist and whether or not the same triple is stored already, stores
\* one new record under the fresh id next_id and returns it; add_entity
\* extends the attribute_index buckets of its values, add_relationship the
\* relationship_index bucket of (from, type) and adjacency_list[from];
\* identical triples share a bucket and to is in adjacency_list[from] once
C19_MalformedAccepted ==
    [][LET id == ont.next_id
       IN /\ ont'.next_id = id + 1
          /\ returned' = Append(returned, id)
          /\ id \notin StoredIds(ont) \cup Elements(returned)
          /\ StoredIds(ont') = StoredIds(ont) \cup {id}
          /\ id \in DOMAIN ont'.entities =>
                LET entity == ont'.entities[id]
                IN /\ entity.id = id
                   /\ \A n \in ProbeNames', v \in ProbeValues' :
                         AttributeBucket(ont', n, v) =
                             AttributeBucket(ont, n, v) \cup
                                 (IF /\ n \in DOMAIN entity.attribute_values
                                     /\ entity.attribute_values[n] = v
                                  THEN {id} ELSE {})
          /\ id \in DOMAIN ont'.relationships =>
                LET r == ont'.relationships[id]
                IN /\ r.id = id
                   /\ RelationshipBucket(ont', r.from_entity, r.rel_type) =
                          RelationshipBucket(ont, r.from_entity, r.rel_type) \cup {id}
                   /\ GetOr(ont'.adjacency_list, r.from_entity, {}) =
                          GetOr(ont.adjacency_list, r.from_entity, {}) \cup {r.to_entity}
                   /\ SameTriple(ont', r) = SameTriple(ont, r) \cup {id}
                   /\ SameTriple(ont', r) \subseteq
                          RelationshipBucket(ont', r.from_entity, r.rel_type)]_vars

\* an entity of a concept that does not exist, and the same triple stored
\* twice between endpoints that are no entities: both records are in one
\* bucket and adjacency_list[from] is {to}
C19_Witness ==
    /\ \E e \in DOMAIN ont.entities :
          ont.entities[e].concept_id \notin DOMAIN ont.concepts
    /\ \E a \in DOMAIN ont.relationships, b \in DOMAIN ont.relationships :
          LET r == ont.relationships[a]
          IN /\ a # b
             /\ b \in SameTriple(ont, r)
             /\ r.from_entity \notin DOMAIN ont.entities
             /\ r.to_entity \notin DOMAIN ont.entities
             /\ {a, b} \subseteq RelationshipBucket(ont, r.from_entity, r.rel_type)
             /\ ont.adjacency_list[r.from_entity] = {r.to_entity}

\* C20: bfs, shortest_path, query and save_to_storage, and the getters they
\* call, change neither next_id nor any map or index of the graph and
\* allocate no id, whatever their arguments
C20_ReadsOnlyRead ==
    [][ont' = ont /\ returned' = returned]_vars

\* a traversal from an id that is no entity has returned and save_to_storage
\* has written the graph
C20_Witness ==
    /\ pc \in {"bfs_done", "sp_done"}
    /\ start_id \notin DOMAIN ont.entities
    /\ storage # <<>>

\* a query has returned and save_to_storage has refused the graph
C20_WitnessQuery ==
    /\ pc = "query_done"
    /\ matches # <<>>
    /\ key_must_be_a_string(ont)

\* ----------------------------------------------------------- claim C21
\* every record of map old is in map new, unchanged
Kept(old, new) == \A id \in DOMAIN old : id \in DOMAIN new /\ new[id] = old[id]

\* C21: no add_* call removes or changes a stored concept, entity or
\* relationship, and each call changes only the map and the indices of its
\* kind: add_concept leaves entities, relationships and the three indices
\* alone, add_entity leaves concepts, relationships, relationship_index and
\* adjacency_list alone, add_relationship leaves concepts, entities and
\* attribute_index alone
C21_AddFrame ==
    [][LET id == ont.next_id
       IN /\ Kept(ont.concepts, ont'.concepts)
          /\ Kept(ont.entities, ont'.entities)
          /\ Kept(ont.relationships, ont'.relationships)
          /\ id \in DOMAIN ont'.concepts =>
                /\ ont'.entities = ont.entities
                /\ ont'.relationships = ont.relationships
                /\ ont'.attribute_index = ont.attribute_index
                /\ ont'.relationship_index = ont.relationship_index
                /\ ont'.adjacency_list = ont.adjacency_list
          /\ id \in DOMAIN ont'.entities =>
                /\ ont'.concepts = ont.concepts
                /\ ont'.concepts_by_name = ont.concepts_by_name
                /\ ont'.relationships = ont.relationships
                /\ ont'.relationship_index = ont.relationship_index
                /\ ont'.adjacency_list = ont.adjacency_list
          /\ id \in DOMAIN ont'.relationships =>
                /\ ont'.concepts = ont.concepts
                /\ ont'.concepts_by_name = ont.concepts_by_name
                /\ ont'.entities = ont.entities
                /\ ont'.attribute_index = ont.attribute_index]_vars

\* one call of each kind was made, the entity with an attribute value, and
\* the three records are stored with the indices of the last two filled
C21_Witness ==
    /\ DOMAIN ont.concepts # {}
    /\ DOMAIN ont.entities # {}
    /\ DOMAIN ont.relationships # {}
    /\ DOMAIN ont.attribute_index # {}
    /\ DOMAIN ont.adjacency_list # {}

\* -------------------------------------------------------- IntentManager
\* the graph store freshly constructed and no call of it running
GraphIdle ==
    /\ ont = Ontology_new
    /\ storage = <<>>
    /\ returned = <<>>
    /\ outcome = NoOutcome
    /\ saved = <<>>
    /\ NoCall

Priorities == {1, 2}

\* Intent::new; description, duration and metadata take no part in the order
Intent_new(id, priority, instant) ==
    [id |-> id, priority |-> priority, created_at |-> instant,
     deadline |-> <<>>, state |-> "Pending"]

\* IntentManager::new; the BinaryHeap is the set of the wrappers it holds
IntentManager_new == [intents |-> EmptyMap, priority_queue |-> {}, next_id |-> 1]

\* Ord::cmp on integers
int_cmp(a, b) == IF a < b THEN "Less" ELSE IF a > b THEN "Greater" ELSE "Equal"

\* Ordering::then_with
then_with(first, second) == IF first = "Equal" THEN second ELSE first

\* the match on (self.0.deadline, other.0.deadline)
deadline_cmp(a, b) ==
    CASE a # <<>> /\ b # <<>> -> int_cmp(a[1], b[1])
      [] a # <<>> /\ b = <<>> -> "Less"
      [] a = <<>> /\ b # <<>> -> "Greater"
      [] OTHER -> "Equal"

\* IntentWrapper::cmp(self, other)
IntentWrapper_cmp(self, other) ==
    then_with(int_cmp(other.priority, self.priority),
              then_with(deadline_cmp(self.deadline, other.deadline),
                        int_cmp(self.created_at, other.created_at)))

\* what BinaryHeap::pop may return: an element no other element is greater than
heap_greatest(heap) ==
    {w \in heap : \A x \in heap : IntentWrapper_cmp(w, x) # "Less"}

\* IntentManager::create_intent; instant is Instant::now()
create_intent(im, priority, instant) ==
    LET id == im.next_id
        intent == Intent_new(id, priority, instant)
    IN [next_id |-> id + 1,
        priority_queue |-> im.priority_queue \cup {intent},
        intents |-> Put(im.intents, id, intent)]

\* IntentManager::rebuild_priority_queue
rebuild_priority_queue(im) ==
    [im EXCEPT !.priority_queue = {im.intents[id] : id \in DOMAIN im.intents}]

\* IntentManager::update_intent; each argument is an Option
update_intent(im, id, priority, deadline, state) ==
    IF id \in DOMAIN im.intents
    THEN LET old == im.intents[id]
             intent == [old EXCEPT
                          !.priority = IF priority # <<>> THEN priority[1] ELSE @,
                          !.deadline = IF deadline # <<>> THEN deadline[1] ELSE @,
                          !.state = IF state # <<>> THEN state[1] ELSE @]
         IN [im |-> rebuild_priority_queue([im EXCEPT !.intents[id] = intent]),
             result |-> Ok]
    ELSE [im |-> im, result |-> Err]

\* IntentManager::next_intent on the heap: every (heap left, Option<Intent>)
\* the pop order allows
RECURSIVE next_intent(_)
next_intent(heap) ==
    IF heap = {} THEN {[priority_queue |-> {}, intent |-> <<>>]}
    ELSE UNION {IF w.state \in {"Pending", "Active"}
                THEN {[priority_queue |-> heap \ {w}, intent |-> Some(w)]}
                ELSE next_intent(heap \ {w}) : w \in heap_greatest(heap)}

MaxIntents == 2

MaxTime == 2

\* the (priority, deadline, state) arguments of update_intent: complete_intent,
\* cancel_intent, an activation, a new priority, a deadline set and cleared
UpdateInputs ==
    {<<NoFilter, NoFilter, Some("Completed")>>,
     <<NoFilter, NoFilter, Some("Cancelled")>>,
     <<NoFilter, NoFilter, Some("Active")>>,
     <<Some(2), NoFilter, NoFilter>>,
     <<NoFilter, Some(Some(1)), NoFilter>>,
     <<NoFilter, Some(Some(2)), NoFilter>>,
     <<NoFilter, Some(NoFilter), NoFilter>>}

IntentInit ==
    /\ GraphIdle
    /\ intent_manager = IntentManager_new
    /\ reasoner = <<>>
    /\ narrative_memory = <<>>
    /\ executor = <<>>
    /\ scheduler = <<>>
    /\ planner = <<>>
    /\ now = 0
    /\ reply = <<>>
    /\ history = <<>>

\* time passes between two calls
Clock ==
    /\ now < MaxTime
    /\ now' = now + 1
    /\ UNCHANGED <<graphVars, pc, reasoner, intent_manager, narrative_memory, executor,
                   scheduler, planner, reply, history>>

CreateIntent ==
    /\ intent_manager.next_id <= MaxIntents
    /\ \E priority \in Priorities :
          intent_manager' = create_intent(intent_manager, priority, now)
    /\ reply' = Some(intent_manager.next_id)
    /\ UNCHANGED <<graphVars, pc, reasoner, narrative_memory, executor, scheduler,
                   planner, now, history>>

UpdateIntent ==
    /\ \E id \in 1 .. MaxIntents, args \in UpdateInputs :
          LET call == update_intent(intent_manager, id, args[1], args[2], args[3])
          IN /\ intent_manager' = call.im
             /\ reply' = Some(call.result)
    /\ UNCHANGED <<graphVars, pc, reasoner, narrative_memory, executor, scheduler,
                   planner, now, history>>

NextIntent ==
    /\ \E call \in next_intent(intent_manager.priority_queue) :
          /\ intent_manager' = [intent_manager EXCEPT
                                   !.priority_queue = call.priority_queue]
          /\ reply' = call.intent
    /\ UNCHANGED <<graphVars, pc, reasoner, narrative_memory, executor, scheduler,
                   planner, now, history>>

IntentNext ==
    \/ Clock
    \/ CreateIntent
    \/ UpdateIntent
    \/ NextIntent

SpecIntent == IntentInit /\ [][IntentNext]_vars

\* ----------------------------------------------------------- claim C22
\* the queued intents next_intent may return
LiveIntents(heap) == {w \in heap : w.state \in {"Pending", "Active"}}

\* a comes before b: higher priority, then the earlier deadline (any deadline
\* before none), then the earlier creation
ComesBefore(a, b) ==
    \/ a.priority > b.priority
    \/ /\ a.priority = b.priority
       /\ \/ a.deadline # <<>> /\ b.deadline = <<>>
          \/ a.deadline # <<>> /\ b.deadline # <<>> /\ a.deadline[1] < b.deadline[1]
    \/ /\ a.priority = b.priority
       /\ a.deadline = b.deadline
       /\ a.created_at < b.created_at

\* C22: next_intent returns a Pending or Active queued intent that no other
\* such intent comes before (priority, then deadline, then creation time), and
\* None only when no queued intent is Pending or Active
C22_NextIntentIsMostUrgent ==
    [][NextIntent =>
          LET live == LiveIntents(intent_manager.priority_queue)
          IN IF live = {} THEN reply' = <<>>
             ELSE /\ reply' # <<>>
                  /\ reply'[1] \in live
                  /\ \A w \in live : ~ComesBefore(w, reply'[1])]_vars

\* ------------------------------------------------------- NarrativeMemory
MaxCapacity == 2

MaxEvents == 4

\* an event is its event_type; timestamp, description and metadata are carried
\* along and never read
EventTypes == {"task_started", "belief_updated", "task_completed"}

\* NarrativeMemory::new
NarrativeMemory_new(max_capacity) == [events |-> <<>>, max_capacity |-> max_capacity]

\* VecDeque::pop_front, which leaves an empty deque as it is
pop_front(events) == IF events = <<>> THEN events ELSE Tail(events)

\* NarrativeMemory::add_event
add_event(nm, event) ==
    LET kept == IF Len(nm.events) = nm.max_capacity
                THEN pop_front(nm.events) ELSE nm.events
    IN [nm EXCEPT !.events = Append(kept, event)]

MemoryInit ==
    /\ GraphIdle
    /\ \E max_capacity \in 0 .. MaxCapacity :
          narrative_memory = NarrativeMemory_new(max_capacity)
    /\ reasoner = <<>>
    /\ intent_manager = <<>>
    /\ executor = <<>>
    /\ scheduler = <<>>
    /\ planner = <<>>
    /\ now = 0
    /\ reply = <<>>
    /\ history = <<>>

\* add_event; history is every event added so far, oldest first
AddEvent ==
    /\ Len(history) < MaxEvents
    /\ \E event \in EventTypes :
          /\ narrative_memory' = add_event(narrative_memory, event)
          /\ history' = Append(history, event)
    /\ UNCHANGED <<graphVars, pc, reasoner, intent_manager, executor, scheduler,
                   planner, now, reply>>

SpecMemory == MemoryInit /\ [][AddEvent]_vars

\* ----------------------------------------------------------- claim C23
Min(a, b) == IF a < b THEN a ELSE b

\* the last n elements of s, in order
LastOf(s, n) == SubSeq(s, Len(s) - n + 1, Len(s))

\* C23: for every max_capacity, 0 included, the memory never holds more than
\* max_capacity events, and it holds exactly the most recent
\* min(number added, max_capacity) events in insertion order
C23_BoundedOldestFirst ==
    /\ Len(narrative_memory.events) <= narrative_memory.max_capacity
    /\ narrative_memory.events =
          LastOf(history, Min(Len(history), narrative_memory.max_capacity))

\* ---------------------------------------------------------- PlanExecutor
MaxPlan == 3

\* the ids of the actions a plan is made of
ActionIds == {"enable_power", "turn_on_light"}

\* Plan.actions, every sequence up to the bound; an action may occur twice
Plans == UNION {[1 .. n -> ActionIds] : n \in 0 .. MaxPlan}

\* what ActionExecutor::execute_action returns: Ok(true), Ok(false) or Err(e)
Answers == {"Ok(true)", "Ok(false)", "Err(e)"}

\* ExecutionStatus
NotStarted == [variant |-> "NotStarted", message |-> <<>>]

InProgress == [variant |-> "InProgress", message |-> <<>>]

Completed == [variant |-> "Completed", message |-> <<>>]

\* an action that fails leaves the plan in progress
Failed_running(kind, id) == InProgress

\* Failed(format!(..)): the message names the action and the kind of failure
Failed(kind, id) == [variant |-> "Failed", message |-> <<kind, id>>]

\* PlanExecutor::new; index counts the actions done, plan[index + 1] is
\* self.plan.actions[self.index]. env is the answers drawn at each call.
PlanExecutor_new(plan) == [plan |-> plan, index |-> 0, status |-> NotStarted]

\* Result<()> and Result<ExecutionStatus>
OkOf(value) == [result |-> Ok, value |-> value]

ErrOf(error) == [result |-> Err, value |-> error]

\* PlanExecutor::step below its first match: the status is NotStarted or
\* InProgress here
step_body(ex, answer) ==
    LET started == [ex EXCEPT !.status = IF @ = NotStarted THEN InProgress ELSE @]
        len == Len(ex.plan)
    IN IF started.index >= len
       THEN [ex |-> [started EXCEPT !.status = Completed],
             result |-> OkOf(<<>>), executed |-> <<>>]
       ELSE LET action == started.plan[started.index + 1]
                ran == Some([index |-> started.index, action |-> action, answer |-> answer])
            IN CASE answer = "Ok(true)" ->
                      [ex |-> [started EXCEPT
                                 !.index = @ + 1,
                                 !.status = IF started.index + 1 >= len THEN Completed ELSE @],
                       result |-> OkOf(<<>>), executed |-> ran]
                 [] answer = "Ok(false)" ->
                      [ex |-> [started EXCEPT !.status = Failed("recoverable", action)],
                       result |-> OkOf(<<>>), executed |-> ran]
                 [] OTHER ->
                      [ex |-> [started EXCEPT !.status = Failed("critical", action)],
                       result |-> ErrOf("e"), executed |-> ran]

\* step with the finished statuses falling through the match
step_reentrant(ex, answer) == step_body(ex, answer)

\* PlanExecutor::step; answer is what execute_action returns if it is called,
\* executed the Option of the call made
step(ex, answer) ==
    IF ex.status.variant \in {"Completed", "Failed"}
    THEN [ex |-> ex, result |-> ErrOf("Execution already finished"), executed |-> <<>>]
    ELSE step_body(ex, answer)

ExecInit ==
    /\ GraphIdle
    /\ \E plan \in Plans : executor = PlanExecutor_new(plan)
    /\ reasoner = <<>>
    /\ intent_manager = <<>>
    /\ narrative_memory = <<>>
    /\ scheduler = <<>>
    /\ planner = <<>>
    /\ now = 0
    /\ reply = <<>>
    /\ history = <<>>

\* a call of step(); history is the log of the execute_action calls
Step ==
    /\ pc = "idle"
    /\ \E answer \in Answers :
          LET call == step(executor, answer)
          IN /\ executor' = call.ex
             /\ reply' = Some(call.result)
             /\ history' = history \o call.executed
    /\ UNCHANGED <<graphVars, pc, reasoner, intent_manager, narrative_memory,
                   scheduler, planner, now>>

\* run_to_completion is entered
RunCall ==
    /\ pc = "idle"
    /\ pc' = "run_while"
    /\ reply' = <<>>
    /\ UNCHANGED <<graphVars, reasoner, intent_manager, narrative_memory, executor,
                   scheduler, planner, now, history>>

\* one turn of the while loop: self.step()?
RunStep ==
    /\ pc = "run_while"
    /\ executor.status \in {NotStarted, InProgress}
    /\ \E answer \in Answers :
          LET call == step(executor, answer)
          IN /\ executor' = call.ex
             /\ history' = history \o call.executed
             /\ IF call.result.result = Err
                THEN pc' = "idle" /\ reply' = Some(call.result)
                ELSE pc' = pc /\ reply' = reply
    /\ UNCHANGED <<graphVars, reasoner, intent_manager, narrative_memory, scheduler,
                   planner, now>>

\* the loop condition fails: Ok(self.status.clone())
RunReturn ==
    /\ pc = "run_while"
    /\ executor.status \notin {NotStarted, InProgress}
    /\ pc' = "idle"
    /\ reply' = Some(OkOf(executor.status))
    /\ UNCHANGED <<graphVars, reasoner, intent_manager, narrative_memory, executor,
                   scheduler, planner, now, history>>

ExecNext ==
    \/ Step
    \/ RunCall
    \/ RunStep
    \/ RunReturn

SpecExec == ExecInit /\ [][ExecNext]_vars

\* a call of run_to_completion that was entered keeps running
FairExec == SpecExec /\ WF_vars(RunStep \/ RunReturn)

\* ----------------------------------------------------------- claim C24
\* the answers execute_action gave, oldest first
AnswersOf(log) == [i \in 1 .. Len(log) |-> log[i].answer]

AllTrue(log) == \A i \in 1 .. Len(log) : log[i].answer = "Ok(true)"

\* the calls of execute_action went through the plan in order, each position
\* once, and none followed a call that did not return Ok(true)
InPlanOrder ==
    \A i \in 1 .. Len(history) :
        /\ i <= Len(executor.plan)
        /\ history[i].index = i - 1
        /\ history[i].action = executor.plan[i]
        /\ i < Len(history) => history[i].answer = "Ok(true)"

\* what run_to_completion hands back on the step it returns with
RunReturnsRight ==
    (pc = "run_while" /\ pc' = "idle") =>
        LET whole == Len(history') = Len(executor.plan) /\ AllTrue(history')
            failed == history' # <<>> /\ history'[Len(history')].answer # "Ok(true)"
            raised == history' # history /\ history'[Len(history')].answer = "Err(e)"
        IN /\ reply' # <<>>
           /\ reply'[1] = OkOf(Completed) <=> whole
           /\ reply'[1].result = Err <=> raised
           /\ (reply'[1].result = Ok /\ reply'[1].value.variant = "Failed")
                 <=> (failed /\ ~raised)

\* C24: run_to_completion terminates; execute_action is called on the plan's
\* actions in plan order, each at most once and never after a call that did not
\* return Ok(true); the call returns Ok(Completed) exactly when every action
\* returned Ok(true), Ok(Failed) after an Ok(false), Err at an Err
C24_RunToCompletion ==
    /\ []InPlanOrder
    /\ [][RunReturnsRight]_vars
    /\ (pc = "run_while") ~> (pc = "idle")

\* run_to_completion returned Ok(Failed) at the last action of a full-length plan
C24_Witness ==
    /\ pc = "idle"
    /\ reply # <<>>
    /\ reply[1].result = Ok
    /\ reply[1].value # <<>>
    /\ reply[1].value.variant = "Failed"
    /\ Len(history) = MaxPlan
    /\ AnswersOf(history)[MaxPlan] = "Ok(false)"

\* ----------------------------------------------------------- claim C26
\* NotStarted -> InProgress -> Completed | Failed, and what two moves make
StatusMoves ==
    {<<"NotStarted", "InProgress">>, <<"InProgress", "Completed">>,
     <<"InProgress", "Failed">>}

StatusPaths ==
    StatusMoves \cup {<<"NotStarted", "Completed">>, <<"NotStarted", "Failed">>}

Finished(ex) == ex.status.variant \in {"Completed", "Failed"}

\* C26: the status only moves along NotStarted -> InProgress -> Completed or
\* Failed; once it is Completed or Failed nothing changes it or the index, no
\* execute_action is called, and every step() returns Err
C26_StatusAbsorbing ==
    [][/\ executor'.status.variant # executor.status.variant =>
             <<executor.status.variant, executor'.status.variant>> \in StatusPaths
       /\ Finished(executor) =>
             /\ executor' = executor
             /\ history' = history
             /\ Step => reply' # <<>> /\ reply'[1].result = Err]_vars

\* step() was refused on a plan that failed after its first action
C26_Witness ==
    /\ executor.status.variant = "Failed"
    /\ executor.index = 1
    /\ reply = Some(ErrOf("Execution already finished"))

\* ------------------------------------------------------------- Scheduler
MaxTasks == 3

MaxDelay == 1

\* Scheduler::new; the task closures take no part in the order
Scheduler_new == [task_queue |-> {}, active_tasks |-> EmptyMap, next_task_id |-> 0]

\* ScheduledTask::cmp(self, other)
ScheduledTask_cmp(self, other) ==
    then_with(int_cmp(other.priority, self.priority),
              int_cmp(self.scheduled_time, other.scheduled_time))

\* what BinaryHeap::peek_mut and pop may yield: a task no other is greater than
task_greatest(heap) ==
    {w \in heap : \A x \in heap : ScheduledTask_cmp(w, x) # "Less"}

\* Scheduler::schedule_task; instant is Instant::now()
schedule_task(sc, priority, delay, instant) ==
    LET id == sc.next_task_id
        scheduled_task == [id |-> id, priority |-> priority,
                           scheduled_time |-> instant + delay]
    IN [sc EXCEPT !.next_task_id = id + 1,
                  !.task_queue = @ \cup {scheduled_task}]

\* the while loop of Scheduler::tick: every (queue left, tasks run in order)
\* the heap allows
RECURSIVE tick(_, _)
tick(heap, instant) ==
    IF heap = {} THEN {[task_queue |-> {}, ran |-> <<>>]}
    ELSE UNION {IF w.scheduled_time <= instant
                THEN {[task_queue |-> rest.task_queue, ran |-> <<w>> \o rest.ran] :
                         rest \in tick(heap \ {w}, instant)}
                ELSE {[task_queue |-> heap, ran |-> <<>>]} : w \in task_greatest(heap)}

SchedulerInit ==
    /\ GraphIdle
    /\ scheduler = Scheduler_new
    /\ reasoner = <<>>
    /\ intent_manager = <<>>
    /\ narrative_memory = <<>>
    /\ executor = <<>>
    /\ planner = <<>>
    /\ now = 0
    /\ reply = <<>>
    /\ history = <<>>

\* Scheduler::start
Start ==
    /\ scheduler' = Scheduler_new
    /\ reply' = <<>>
    /\ UNCHANGED <<graphVars, pc, reasoner, intent_manager, narrative_memory, executor,
                   planner, now, history>>

ScheduleTask ==
    /\ scheduler.next_task_id < MaxTasks
    /\ \E priority \in Priorities, delay \in 0 .. MaxDelay :
          scheduler' = schedule_task(scheduler, priority, delay, now)
    /\ reply' = Some(scheduler.next_task_id)
    /\ UNCHANGED <<graphVars, pc, reasoner, intent_manager, narrative_memory, executor,
                   planner, now, history>>

\* Scheduler::tick; history is the tasks this tick ran, in order
Tick ==
    /\ \E call \in tick(scheduler.task_queue, now) :
          /\ scheduler' = [scheduler EXCEPT
                              !.task_queue = call.task_queue,
                              !.active_tasks = [id \in DOMAIN @ \ {w.id : w \in
                                                   {call.ran[i] : i \in 1 .. Len(call.ran)}}
                                                |-> @[id]]]
          /\ history' = call.ran
    /\ reply' = <<>>
    /\ UNCHANGED <<graphVars, pc, reasoner, intent_manager, narrative_memory, executor,
                   planner, now>>

SchedulerNext ==
    \/ Clock
    \/ Start
    \/ ScheduleTask
    \/ Tick

SpecScheduler == SchedulerInit /\ [][SchedulerNext]_vars

\* ----------------------------------------------------------- claim C25
\* the queued tasks whose time has come
DueTasks(heap, instant) == {w \in heap : w.scheduled_time <= instant}

\* C25: tick runs every queued task whose scheduled_time is at or before the
\* current time and removes it from the queue, and runs no task whose
\* scheduled_time is later, whatever the priorities
C25_TickRunsAllDue ==
    [][Tick =>
          LET due == DueTasks(scheduler.task_queue, now)
          IN /\ {history'[i] : i \in 1 .. Len(history')} = due
             /\ scheduler'.task_queue = scheduler.task_queue \ due]_vars

\* -------------------------------------------------------------- Reasoner
MaxConcepts == 2

\* ids given as parent_ids and asked about: the concepts and one id past them
ReasonIds == 1 .. MaxConcepts + 1

\* the order in which each concept's parent_ids HashSet is iterated
ParentOrders(o) ==
    {order \in [DOMAIN o.concepts -> UNION {Orders(S) : S \in SUBSET ReasonIds}] :
        \A id \in DOMAIN o.concepts :
            order[id] \in Orders(o.concepts[id].parent_ids)}

\* Reasoner::is_concept_or_subconcept, and its for loop over the parents left.
\* active holds concept_a of every call on the stack: a call made with an
\* argument that is on the stack runs through the same statements as that one
\* and calls itself again without end, until the stack overflows.
RECURSIVE is_concept_or_subconcept(_, _, _, _, _)
RECURSIVE for_parent_ids(_, _, _, _, _)
is_concept_or_subconcept(o, order, concept_a, concept_b, active) ==
    IF concept_a = concept_b THEN "true"
    ELSE IF concept_a \in active THEN "stack_overflow"
    ELSE IF get_concept(o, concept_a) = <<>> THEN "false"
    ELSE for_parent_ids(o, order, order[concept_a], concept_b, active \cup {concept_a})

for_parent_ids(o, order, left, concept_b, active) ==
    IF left = <<>> THEN "false"
    ELSE LET found == is_concept_or_subconcept(o, order, Head(left), concept_b, active)
         IN IF found = "false"
            THEN for_parent_ids(o, order, Tail(left), concept_b, active)
            ELSE found

ReasonInit ==
    /\ GraphIdle
    /\ reasoner = <<>>
    /\ intent_manager = <<>>
    /\ narrative_memory = <<>>
    /\ executor = <<>>
    /\ scheduler = <<>>
    /\ planner = <<>>
    /\ now = 0
    /\ reply = <<>>
    /\ history = <<>>

\* add_concept with any parent_ids: itself, a later concept, an id never given
AddParentedConcept ==
    /\ ont.next_id <= MaxConcepts
    /\ \E name \in ConceptNames, parents \in SUBSET ReasonIds :
          ont' = add_concept(ont, name, parents, EmptyMap)
    /\ reasoner' = <<>>
    /\ reply' = <<>>
    /\ UNCHANGED <<storage, returned, outcome, saved, travVars, queryVars,
                   intent_manager, narrative_memory, executor, scheduler, planner,
                   now, history>>

\* Reasoner::new(&ont).is_concept_or_subconcept(concept_a, concept_b)
IsConceptOrSubconcept ==
    /\ \E concept_a \in ReasonIds, concept_b \in ReasonIds, order \in ParentOrders(ont) :
          /\ reasoner' = [concept_a |-> concept_a, concept_b |-> concept_b]
          /\ reply' = Some(is_concept_or_subconcept(ont, order, concept_a, concept_b, {}))
    /\ UNCHANGED <<graphVars, pc, intent_manager, narrative_memory, executor,
                   scheduler, planner, now, history>>

SpecReason == ReasonInit /\ [][AddParentedConcept \/ IsConceptOrSubconcept]_vars

\* ----------------------------------------------------------- claim C28
\* the ids reachable from the set S by zero or more parent_ids edges
RECURSIVE Ancestors(_, _)
Ancestors(o, S) ==
    LET more == S \cup UNION {o.concepts[id].parent_ids : id \in S \cap DOMAIN o.concepts}
    IN IF more = S THEN S ELSE Ancestors(o, more)

\* C28: on every concept table add_concept can build, self-loops and cycles
\* among the parent_ids included, is_concept_or_subconcept(a, b) returns, and
\* returns true exactly when b is reachable from a along parent_ids
C28_SubconceptDecided ==
    reply # <<>> =>
        /\ reply[1] # "stack_overflow"
        /\ reply[1] = "true" <=> reasoner.concept_b \in Ancestors(ont, {reasoner.concept_a})

\* ---------------------------------------------- traversal, run to its end
\* a call of bfs or of shortest_path; once entered, it keeps running
FairTraversal ==
    /\ BfsInit \/ SpInit
    /\ [][BfsNext \/ SpNext]_vars
    /\ WF_vars(BfsNext \/ SpNext)

\* ----------------------------------------------------------- claim C27
\* the ids in the queue: bfs queues (id, depth) pairs, shortest_path ids
QueuedIds(q) ==
    {IF pc \in {"bfs_while", "bfs_for", "bfs_done"} THEN q[i][1] ELSE q[i] :
        i \in 1 .. Len(q)}

\* a step that lengthens the queue pushes an id that was not visited before and
\* is visited from then on; visited never loses an id
EnqueuedOnce ==
    /\ visited \subseteq visited'
    /\ Len(queue') > Len(queue) =>
          /\ SubSeq(queue', 1, Len(queue)) = queue
          /\ Len(queue') = Len(queue) + 1
          /\ \A id \in QueuedIds(<<queue'[Len(queue')]>>) :
                id \notin visited /\ id \in visited'

\* C27: bfs and shortest_path terminate on every finite graph, self-loops,
\* directed cycles and edges to ids that are no entities included, and each id
\* is enqueued at most once: an id is pushed only if it was not visited, and
\* every id pushed is visited for the rest of the call
C27_TraversalTerminates ==
    /\ [](QueuedIds(queue) \subseteq visited)
    /\ [][EnqueuedOnce]_vars
    /\ <>(pc \in {"bfs_done", "sp_done"})

\* bfs from 1 has returned on a graph with the cycle 1 -> 2 -> 1 and an edge
\* from 2 to 3, which is no entity
C27_Witness ==
    /\ pc = "bfs_done"
    /\ start_id = 1
    /\ 2 \in GetOr(ont.adjacency_list, 1, {})
    /\ {1, 3} \subseteq GetOr(ont.adjacency_list, 2, {})
    /\ 3 \notin DOMAIN ont.entities
    /\ visited = {1, 2, 3}

\* ----------------------------------------------------------- claim C29
\* C29: the indexed lookup and the scanning query agree: for every attribute
\* name n and value v, query of AttrFilter{n, Eq, v} returns exactly the
\* entities that find_entities_by_attribute_indexed(n, v) returns
C29_IndexAgreesWithScan ==
    (pc = "query_done" /\ expr.kind = "AttrFilter" /\ expr.op = "Eq") =>
        Elements(matches) =
            find_entities_by_attribute_indexed(ont, expr.attr_name, expr.value)

\* an Eq query has found one of two entities; the other holds the attribute
\* with another value of the same variant
C29_Witness ==
    /\ pc = "query_done"
    /\ expr.kind = "AttrFilter"
    /\ expr.op = "Eq"
    /\ Len(matches) = 1
    /\ \E id \in DOMAIN ont.entities :
          /\ id \notin Elements(matches)
          /\ expr.attr_name \in DOMAIN ont.entities[id].attribute_values
          /\ ont.entities[id].attribute_values[expr.attr_name].variant = expr.value.variant

\* ----------------------------------------------------------- GoapPlanner
MaxActions == 2

\* WorldState values the planner is started on
WorldInputs == {EmptyMap, [has_power |-> TRUE], [has_power |-> FALSE]}

\* Goal.desired_state; the first is the goal of test_goap_planner_finds_plan
GoalInputs == {[light_on |-> TRUE], [light_on |-> FALSE], EmptyMap}

\* the two actions of sample_actions, and one that undoes them
ActionPool ==
    {[id |-> "turn_on_light", preconditions |-> [has_power |-> TRUE],
      effects |-> [light_on |-> TRUE], cost |-> 1],
     [id |-> "enable_power", preconditions |-> EmptyMap,
      effects |-> [has_power |-> TRUE], cost |-> 2],
     [id |-> "cut_power", preconditions |-> [has_power |-> TRUE],
      effects |-> [has_power |-> FALSE, light_on |-> FALSE], cost |-> 1]}

\* the actions slice: distinct actions of the pool in any order
ActionLists == UNION {Orders(S) : S \in {T \in SUBSET ActionPool : Cardinality(T) <= MaxActions}}

\* goal_satisfied and preconditions_met: every wanted pair is in the world
goal_satisfied(world, desired) ==
    \A k \in DOMAIN desired : k \in DOMAIN world /\ world[k] = desired[k]

preconditions_met(world, preconditions) ==
    \A k \in DOMAIN preconditions : k \in DOMAIN world /\ world[k] = preconditions[k]

\* new_world: the clone of the world with every effect inserted
apply_effects(world, effects) ==
    [k \in DOMAIN world \cup DOMAIN effects |->
        IF k \in DOMAIN effects THEN effects[k] ELSE world[k]]

\* struct Node
Node(world, actions, cost) == [world |-> world, actions |-> actions, cost |-> cost]

\* estimated_cost: a finite sum or f32::INFINITY
Finite(cost) == [finite |-> TRUE, value |-> cost]

Infinity == [finite |-> FALSE, value |-> 0]

\* struct Plan (goal_id is copied from the goal)
Plan(actions, estimated_cost) == [actions |-> actions, estimated_cost |-> estimated_cost]

\* the for loop over actions: the nodes pushed for one popped node, in order
RECURSIVE expand(_, _)
expand(node, actions) ==
    IF actions = <<>> THEN <<>>
    ELSE LET action == Head(actions)
         IN (IF preconditions_met(node.world, action.preconditions)
             THEN <<Node(apply_effects(node.world, action.effects),
                         Append(node.actions, action), node.cost + action.cost)>>
             ELSE <<>>) \o expand(node, Tail(actions))

\* the worlds some sequence of applicable actions leads to from the set W
RECURSIVE ReachableWorlds(_, _)
ReachableWorlds(W, actions) ==
    LET next == W \cup {apply_effects(p[1], actions[p[2]].effects) :
                          p \in {q \in W \X (1 .. Len(actions)) :
                                   preconditions_met(q[1], actions[q[2]].preconditions)}}
    IN IF next = W THEN W ELSE ReachableWorlds(next, actions)

\* the call plan(world, goal, actions) is entered: the queue holds the start node
PlanInit ==
    /\ GraphIdle
    /\ \E world \in WorldInputs, desired_state \in GoalInputs, actions \in ActionLists :
          planner = [world |-> world, desired_state |-> desired_state,
                     actions |-> actions, queue |-> <<Node(world, <<>>, 0)>>,
                     pc |-> "while"]
    /\ reasoner = <<>>
    /\ intent_manager = <<>>
    /\ narrative_memory = <<>>
    /\ executor = <<>>
    /\ scheduler = <<>>
    /\ now = 0
    /\ reply = <<>>
    /\ history = <<>>

\* the node popped lies deeper than there are worlds to reach: its path went
\* through one world twice, so paths of every length exist, and every world
\* that can be reached was popped before it (the queue is first in first out)
\* without satisfying the goal. The loop pushes and pops without end.
RunsForever(node) ==
    /\ ~goal_satisfied(node.world, planner.desired_state)
    /\ Len(node.actions) >= Cardinality(ReachableWorlds({planner.world}, planner.actions))

\* one turn of the while loop whose node satisfies the goal: return Ok(Plan)
PlanFound ==
    /\ planner.pc = "while"
    /\ planner.queue # <<>>
    /\ LET node == Head(planner.queue)
       IN /\ goal_satisfied(node.world, planner.desired_state)
          /\ reply' = Some(Plan(node.actions, Finite(node.cost)))
          /\ planner' = [planner EXCEPT !.queue = Tail(@), !.pc = "done"]
    /\ UNCHANGED <<graphVars, pc, reasoner, intent_manager, narrative_memory, executor,
                   scheduler, now, history>>

\* one turn of the while loop on any other node: the for loop pushes a node
\* for every action whose preconditions are met
PlanExpand ==
    /\ planner.pc = "while"
    /\ planner.queue # <<>>
    /\ LET node == Head(planner.queue)
       IN /\ ~goal_satisfied(node.world, planner.desired_state)
          /\ planner' = IF RunsForever(node)
                        THEN [planner EXCEPT !.pc = "runs_forever"]
                        ELSE [planner EXCEPT
                                !.queue = Tail(@) \o expand(node, planner.actions)]
    /\ UNCHANGED <<graphVars, pc, reasoner, intent_manager, narrative_memory, executor,
                   scheduler, now, reply, history>>

\* the queue is empty: no plan found, return the empty plan
PlanNotFound ==
    /\ planner.pc = "while"
    /\ planner.queue = <<>>
    /\ reply' = Some(Plan(<<>>, Infinity))
    /\ planner' = [planner EXCEPT !.pc = "done"]
    /\ UNCHANGED <<graphVars, pc, reasoner, intent_manager, narrative_memory, executor,
                   scheduler, now, history>>

PlanNext ==
    \/ PlanFound
    \/ PlanExpand
    \/ PlanNotFound

SpecPlan == PlanInit /\ [][PlanNext]_vars

\* ----------------------------------------------------------- claim C30
\* the worlds the prefixes of a plan lead through, from world w
RECURSIVE Run(_, _)
Run(w, actions) ==
    IF actions = <<>> THEN <<w>>
    ELSE <<w>> \o Run(apply_effects(w, Head(actions).effects), Tail(actions))

\* every action's preconditions are met in the world its predecessors produce
Applicable(w, actions) ==
    \A i \in 1 .. Len(actions) :
        preconditions_met(Run(w, actions)[i], actions[i].preconditions)

\* the worlds reached by applicable sequences of at most n actions
RECURSIVE WithinSteps(_, _, _)
WithinSteps(W, actions, n) ==
    IF n = 0 THEN W
    ELSE WithinSteps(
             W \cup {apply_effects(p[1], actions[p[2]].effects) :
                       p \in {q \in W \X (1 .. Len(actions)) :
                                preconditions_met(q[1], actions[q[2]].preconditions)}},
             actions, n - 1)

GoalWithin(n) ==
    \E w \in WithinSteps({planner.world}, planner.actions, n) :
        goal_satisfied(w, planner.desired_state)

GoalReachable ==
    \E w \in ReachableWorlds({planner.world}, planner.actions) :
        goal_satisfied(w, planner.desired_state)

\* what plan returns is what the claim says
PlanIsRight ==
    planner.pc = "done" =>
        LET plan == reply[1]
        IN IF GoalReachable
           THEN /\ Applicable(planner.world, plan.actions)
                /\ goal_satisfied(Run(planner.world, plan.actions)[Len(plan.actions) + 1],
                                  planner.desired_state)
                /\ Len(plan.actions) = 0 \/ ~GoalWithin(Len(plan.actions) - 1)
           ELSE plan = Plan(<<>>, Infinity)

\* C30: plan terminates for every world, goal and action set; it returns a
\* plan of the fewest actions, each applicable where its predecessors lead and
\* the last one reaching the goal, when the goal can be reached, and the empty
\* plan of infinite cost when it cannot
C30_PlanTerminatesRight ==
    /\ planner.pc # "runs_forever"
    /\ PlanIsRight

====
